---------------------------- MODULE Spec2Model ----------------------------
(***************************************************************************)
(* A model of the NepalReform web application: the agenda-id normalisation *)
(* utility (lib/utils/uuid-helpers), the SuggestionList component (voting  *)
(* with optimistic updates, sorting) and the /api/suggestions route.       *)
(*                                                                         *)
(* JavaScript strings are modelled as sequences of one-character strings,  *)
(* so that regular expressions, replace, padStart, substring and           *)
(* charCodeAt are computed character by character.                         *)
(***************************************************************************)
EXTENDS Integers, Sequences, FiniteSets, TLC

(***************************************************************************)
(* Bounds of the model.                                                    *)
(***************************************************************************)
\* Longest run of digits in an id the model feeds to the id utility.
MaxDigits == 5
\* Number of clicks on vote buttons in one life of a SuggestionList.
MaxClicks == 2
\* Largest like/dislike count the server starts from.
MaxCount == 1
\* Number of rows the suggestions table takes in one run.
MaxRows == 2
\* Latest clock value of the server, in ticks of TickMs.
MaxTime == 2
\* Number of requests the second client address sends in one run.
MaxOtherPosts == 1
\* Number of times the refreshTrigger of a SuggestionList changes.
MaxRefreshes == 1
\* Number of rows POST /api/testimonials adds in one run.
MaxTestimonials == 1
\* Number of manifesto items loaded into ManifestoList.
MaxItems == 3

(***************************************************************************)
(* The state.                                                              *)
(***************************************************************************)
VARIABLES
    agendas,    \* the rows of the agendas table: [sequence_id, id]
    idCall,     \* the latest call into uuid-helpers, or NullObj
    idPrev,     \* the call before it when both are calls of
                \* validateAndNormalizeAgendaId naming the same agenda
                \* number, else NullObj
    \* The vote server, as seen by the signed-in visitor.
    session,        \* the visitor's session user, or NullObj
    feed,           \* the approved suggestions GET /api/suggestions answers
    otherVotes,     \* per suggestion, the likes and dislikes of other users
    myVote,         \* per suggestion, the visitor's vote row: like, dislike, none
    \* The SuggestionList component.
    user,           \* useState user
    suggestions,    \* useState suggestions
    userVotes,      \* useState userVotes: a map from suggestion id
    voteCounts,     \* useState voteCounts: a map from suggestion id
    sortBy,         \* useState sortBy
    loading,        \* useState loading
    error,          \* useState error
    location,       \* window.location.href
    fetchStage,     \* where fetchSuggestions stands: idle, suggestions, votes
    requests,       \* the vote requests handleVote issued, in order
    errorTimers,    \* the pending setTimeout(() => setError(null), 5000)
    refreshes,      \* how often refreshTrigger changed
    lastEvent,      \* the latest step of the component: its kind and request
    clicks,         \* the latest consecutive handleVote calls on one item
    \* The server of POST /api/suggestions.
    now,                \* Date.now() of the server, in milliseconds
    rateLog,            \* the rate limiter's store: per address, the times
                        \* of the requests it let through
    passed,             \* per address, the times in the current window at
                        \* which POST went on after the rate limiter
    suggestionsTable,   \* the rows of the suggestions table, in insert order
    systemSettings,     \* the row of system_settings, or NullObj
    emailTasks,         \* the callbacks setImmediate has queued
    emailLog,           \* whether the log holds a failure of an email request
    otherPosts,         \* how many requests the second address has sent
    lastPost,           \* the latest POST since the clock moved: request,
                        \* environment and response, or NullObj
    \* GET /api/suggestions.
    lastGet,            \* the latest GET: request, environment and response
    \* The deployment and the middleware.
    processEnv,         \* process.env: the database URL and the two keys
    profiles,           \* the profiles table: per user id, the role or NoRole
    lastGate,           \* the latest request the middleware handled since
                        \* the profiles last changed, with what it returned
    \* /api/testimonials.
    testimonials,       \* the rows of the testimonials table, in insert order
    lastTestimonial,    \* the latest request to /api/testimonials since the
                        \* profiles last changed, with what the route did
    \* ManifestoList.
    manifestoData,      \* the items useManifestoData has loaded
    votesDataRaw,       \* the votes useVotes has loaded
    filters,            \* the component's FilterState
    randomSeed,         \* the seed of the shuffle, NullObj before the first
    displayData,        \* the items the component renders, in order
    shuffleSwaps,       \* the index pairs the latest shuffle swapped
    \* lib/i18n.ts and the I18nProvider.
    moduleState,        \* lib/i18n.ts: unloaded, or evaluated on the client
                        \* or on the server
    translationsLoaded, \* let translationsLoaded
    loadingPromise,     \* let loadingPromise: null, pending or fulfilled
    localeFetch,        \* per language, the fetch of common.json with its
                        \* r.json(): idle, pending, ok or failed
    fetchPairs,         \* how often the pair of fetches was issued
    bundles,            \* the languages whose common bundle was added
    calls,              \* the calls of loadTranslations, in order
    providers,          \* the I18nProvider instances, in order of mounting
    \* hooks/use-cached-data.ts: the offline queue.
    onLine,             \* navigator.onLine
    offlineActions,     \* the actions CacheManager holds, in order of saving
    syncRun,            \* the run of useOfflineSync's mutationFn under way:
                        \* the actions it read, its position, its results;
                        \* or NullObj
    inserted,           \* the suggestions the database has taken
    submitted,          \* how many suggestions the visitor has submitted
    savedOffline,       \* the suggestions that were saved for a later sync
    \* The TestimonialCarousel.
    carouselFetch,      \* fetchTestimonials: pending or done
    carouselCount,      \* testimonials.length of the component's state
    isPaused,           \* useState isPaused
    isHovered,          \* useState isHovered
    scrollTop,          \* scrollRef.current.scrollTop
    scrollHeight,       \* scrollRef.current.scrollHeight, 0 while the
                        \* component renders nothing
    animationRef,       \* animationRef.current, 0 for null
    frames,             \* the animation frame callbacks requested and
                        \* neither run nor cancelled, by id
    nextFrame,          \* the id the next requestAnimationFrame returns
    effect              \* the scroll effect as it last ran: its
                        \* dependencies and whether it returned a cleanup

idVars == <<agendas, idCall, idPrev>>
serverVars == <<session, feed, otherVotes, myVote>>
listVars == <<serverVars, user, suggestions, userVotes, voteCounts, sortBy,
              loading, error, location, fetchStage, requests, errorTimers,
              refreshes, lastEvent, clicks>>
postVars == <<now, rateLog, passed, suggestionsTable, systemSettings,
              emailTasks, emailLog, otherPosts, lastPost>>
getVars == <<lastGet>>
envVars == <<processEnv, profiles>>
gateVars == <<lastGate>>
testimonialVars == <<testimonials, lastTestimonial>>
manifestoVars == <<manifestoData, votesDataRaw, filters, randomSeed, displayData,
                   shuffleSwaps>>
i18nVars == <<moduleState, translationsLoaded, loadingPromise, localeFetch,
              fetchPairs, bundles, calls, providers>>
queueVars == <<onLine, offlineActions, syncRun, inserted, submitted, savedOffline>>
carouselVars == <<carouselFetch, carouselCount, isPaused, isHovered, scrollTop,
                  scrollHeight, animationRef, frames, nextFrame, effect>>
clientVars == <<i18nVars, queueVars, carouselVars>>
siteVars == <<envVars, gateVars, testimonialVars, manifestoVars, clientVars>>
vars == <<idVars, listVars, postVars, getVars, siteVars>>

\* What the steps of one part of the program leave alone.
outsideIds == <<listVars, postVars, getVars, siteVars>>
outsideList == <<idVars, postVars, getVars, siteVars>>
outsidePost == <<idVars, listVars, getVars, siteVars>>
outsideGet == <<idVars, listVars, siteVars>>
outsideGate == <<idVars, listVars, postVars, getVars, envVars, testimonialVars,
                 manifestoVars, clientVars>>
outsideTestimonials == <<idVars, listVars, postVars, getVars, envVars, gateVars,
                         manifestoVars, clientVars>>
outsideManifesto == <<idVars, listVars, postVars, getVars, envVars, gateVars,
                      testimonialVars, clientVars>>
serverSide == <<idVars, listVars, postVars, getVars, envVars, gateVars,
                testimonialVars, manifestoVars>>
outsideI18n == <<serverSide, queueVars, carouselVars>>
outsideQueue == <<serverSide, i18nVars, carouselVars>>
outsideCarousel == <<serverSide, i18nVars, queueVars>>

(***************************************************************************)
(* JavaScript values and string primitives.                                *)
(***************************************************************************)
\* JavaScript's null and undefined. A value is compared only with values of
\* its own kind, so there is one null for each kind: Null where a string (a
\* sequence of characters) may stand, NullObj where an object (a record) may
\* stand, and the tokens NoError and Undefined where an error code or a message
\* may stand.
Null == <<"null">>
NullObj == [null |-> TRUE]
NoError == "null"
Undefined == "undefined"

DigitChars == <<"0", "1", "2", "3", "4", "5", "6", "7", "8", "9">>
LowerChars == <<"a", "b", "c", "d", "e", "f", "g", "h", "i", "j", "k", "l", "m",
                "n", "o", "p", "q", "r", "s", "t", "u", "v", "w", "x", "y", "z">>
UpperChars == <<"A", "B", "C", "D", "E", "F", "G", "H", "I", "J", "K", "L", "M",
                "N", "O", "P", "Q", "R", "S", "T", "U", "V", "W", "X", "Y", "Z">>

Range(s) == {s[i] : i \in DOMAIN s}
IndexOf(c, s) == CHOOSE i \in DOMAIN s : s[i] = c

\* \d of a regular expression without the u flag.
IsDigit(c) == c \in Range(DigitChars)
\* [0-9a-f] under the i flag.
IsHex(c) == \/ IsDigit(c)
            \/ c \in {LowerChars[i] : i \in 1..6}
            \/ c \in {UpperChars[i] : i \in 1..6}

\* String.prototype.charCodeAt for the characters the model uses.
CharCode(c) ==
    IF c \in Range(DigitChars) THEN 47 + IndexOf(c, DigitChars)
    ELSE IF c \in Range(LowerChars) THEN 96 + IndexOf(c, LowerChars)
    ELSE IF c \in Range(UpperChars) THEN 64 + IndexOf(c, UpperChars)
    ELSE IF c = "-" THEN 45
    ELSE IF c = "_" THEN 95
    ELSE 32

\* The literal "manifesto-" and "agenda-".
ManifestoPrefix == <<"m", "a", "n", "i", "f", "e", "s", "t", "o", "-">>
AgendaPrefix == <<"a", "g", "e", "n", "d", "a", "-">>

\* s.padStart(n, c) and s.padEnd(n, c) with a one-character filler.
PadStart(s, n, c) == [i \in 1..(IF n > Len(s) THEN n - Len(s) ELSE 0) |-> c] \o s
PadEnd(s, n, c) == s \o [i \in 1..(IF n > Len(s) THEN n - Len(s) ELSE 0) |-> c]

\* s.substring(a, b), 0 <= a <= b, indices clamped to the length.
Substring(s, a, b) ==
    LET lo == IF a > Len(s) THEN Len(s) ELSE a
        hi == IF b > Len(s) THEN Len(s) ELSE b
    IN  SubSeq(s, lo + 1, hi)

\* s.startsWith(p) at 0-based offset k.
MatchesAt(s, p, k) ==
    /\ k + Len(p) <= Len(s)
    /\ \A i \in 1..Len(p) : s[k + i] = p[i]

\* s.replace(pat, rep) with a string pattern: the first occurrence only.
Replace(s, pat, rep) ==
    LET hits == {k \in 0..Len(s) : MatchesAt(s, pat, k)}
    IN  IF hits = {} THEN s
        ELSE LET k == CHOOSE x \in hits : \A y \in hits : x <= y
             IN  SubSeq(s, 1, k) \o rep \o SubSeq(s, k + Len(pat) + 1, Len(s))

\* Number.parseInt of a string of decimal digits.
RECURSIVE ParseInt(_)
ParseInt(s) ==
    IF s = <<>> THEN 0
    ELSE 10 * ParseInt(SubSeq(s, 1, Len(s) - 1)) + (IndexOf(s[Len(s)], DigitChars) - 1)

(***************************************************************************)
(* 32-bit integers are kept as two 16-bit limbs <<hi, lo>> (value          *)
(* hi * 65536 + lo modulo 2^32), so that no intermediate value leaves the  *)
(* range of the model checker's integers.                                  *)
(***************************************************************************)
Limb == 65536

\* One round of the loop: hash = (hash << 5) - hash + char; hash = hash & hash.
\* Modulo 2^32 this is 31 * hash + char, which ToInt32 (hash & hash) keeps.
HashStep(h, char) ==
    LET lo == 31 * h[2] + char
        hi == 31 * h[1] + (lo \div Limb)
    IN  <<hi % Limb, lo % Limb>>

RECURSIVE HashLoop(_, _, _)
HashLoop(seed, i, h) ==
    IF i > Len(seed) THEN h
    ELSE HashLoop(seed, i + 1, HashStep(h, CharCode(seed[i])))

\* Math.abs of the signed 32-bit value held in the limbs (2^31 for -2^31).
MathAbs(h) ==
    IF h[1] < 32768 THEN h
    ELSE IF h[2] = 0 THEN <<(Limb - h[1]) % Limb, 0>>
    ELSE <<Limb - 1 - h[1], Limb - h[2]>>

HexChar(d) == IF d < 10 THEN DigitChars[d + 1] ELSE LowerChars[d - 9]
Hex4(x) == <<HexChar(x \div 4096), HexChar((x \div 256) % 16),
             HexChar((x \div 16) % 16), HexChar(x % 16)>>

RECURSIVE StripLeadingZeros(_)
StripLeadingZeros(s) ==
    IF Len(s) > 1 /\ s[1] = "0" THEN StripLeadingZeros(Tail(s)) ELSE s

\* Number.prototype.toString(16) of a non-negative value below 2^32.
ToString16(h) == StripLeadingZeros(Hex4(h[1]) \o Hex4(h[2]))


(***************************************************************************)
(* lib/utils/uuid-helpers: recognising and normalising agenda ids.         *)
(***************************************************************************)
\* The same expression without its i flag.
isValidUUID_CaseSensitive(uuid) ==
    /\ Len(uuid) = 36
    /\ \A i \in 1..36 :
          IF i \in {9, 14, 19, 24} THEN uuid[i] = "-"
          ELSE IF i = 15 THEN uuid[i] \in {"1", "2", "3", "4", "5"}
          ELSE IF i = 20 THEN uuid[i] \in {"8", "9", "a", "b"}
          ELSE IsDigit(uuid[i]) \/ uuid[i] \in {LowerChars[k] : k \in 1..6}

\* /^[0-9a-f]{8}-[0-9a-f]{4}-[1-5][0-9a-f]{3}-[89ab][0-9a-f]{3}-[0-9a-f]{12}$/i
isValidUUID(uuid) ==
    /\ Len(uuid) = 36
    /\ \A i \in 1..36 :
          IF i \in {9, 14, 19, 24} THEN uuid[i] = "-"
          ELSE IF i = 15 THEN uuid[i] \in {"1", "2", "3", "4", "5"}
          ELSE IF i = 20 THEN uuid[i] \in {"8", "9", "a", "b", "A", "B"}
          ELSE IsHex(uuid[i])

\* /^\d+$/
isRawInteger(id) == Len(id) >= 1 /\ \A i \in 1..Len(id) : IsDigit(id[i])

\* /^manifesto-\d+$/
isManifestoFormat(id) ==
    /\ MatchesAt(id, ManifestoPrefix, 0)
    /\ isRawInteger(SubSeq(id, Len(ManifestoPrefix) + 1, Len(id)))

\* toManifestoFormat without its isRawInteger test.
toManifestoFormat_Always(id) == ManifestoPrefix \o id

toManifestoFormat(id) == IF isRawInteger(id) THEN ManifestoPrefix \o id ELSE id

\* generateDeterministicUUID seeding its hash with the size of the agendas
\* table as well.
generateDeterministicUUID_Salted(manifestoId) ==
    LET seedString == AgendaPrefix \o manifestoId \o <<HexChar(Cardinality(agendas))>>
        hash == HashLoop(seedString, 1, <<0, 0>>)
        hex == PadStart(ToString16(MathAbs(hash)), 8, "0")
        manifestoNumber == PadStart(Replace(manifestoId, ManifestoPrefix, <<>>), 4, "0")
    IN  hex \o <<"-">> \o manifestoNumber
          \o <<"-", "4", "0", "0", "0", "-", "8", "0", "0", "0", "-">>
          \o PadEnd(hex, 12, "0")

generateDeterministicUUID(manifestoId) ==
    LET seedString == AgendaPrefix \o manifestoId
        hash == HashLoop(seedString, 1, <<0, 0>>)
        positiveHash == MathAbs(hash)
        hex == PadStart(ToString16(positiveHash), 8, "0")
        manifestoNumber == PadStart(Replace(manifestoId, ManifestoPrefix, <<>>), 4, "0")
        tail3 == LET t == Substring(hex, 8, 11) IN IF t = <<>> THEN <<"0", "0", "0">> ELSE t
    IN  Substring(hex, 0, 8) \o <<"-">> \o manifestoNumber
          \o <<"-", "4", "0", "0", "0", "-", "8">> \o tail3 \o <<"-">>
          \o PadEnd(Substring(hex, 0, 12), 12, "0")

\* The answer of .single() on the rows a query selected: data and error.
Single(rows) ==
    IF Cardinality(rows) = 1
    THEN [data |-> CHOOSE r \in rows : TRUE, error |-> NoError]
    ELSE [data |-> NullObj, error |-> "PGRST116"]

\* supabase.from("agendas").select("id").eq("sequence_id", n).single(); dbError
\* is the error code of a failing database, or NoError.
AgendaBySequenceId(db, n, dbError) ==
    IF dbError # NoError THEN [data |-> NullObj, error |-> dbError]
    ELSE Single({r \in db : r.sequence_id = n})

\* getOrCreateAgendaUUID parsing the whole id: parseInt("manifesto-7") is NaN,
\* which no sequence_id equals.
getOrCreateAgendaUUID_NoStrip(manifestoId, db, dbError) ==
    IF dbError # NoError /\ dbError # "PGRST116"
    THEN [uuid |-> Null, via |-> "catch"]
    ELSE [uuid |-> generateDeterministicUUID(manifestoId), via |-> "generated"]

\* The value getOrCreateAgendaUUID returns, and the return statement that
\* produced it ("row", "generated" or "catch").
getOrCreateAgendaUUID(manifestoId, db, dbError) ==
    LET manifestoNumber == Replace(manifestoId, ManifestoPrefix, <<>>)
        res == AgendaBySequenceId(db, ParseInt(manifestoNumber), dbError)
    IN  IF res.error # NoError /\ res.error # "PGRST116"
        THEN [uuid |-> Null, via |-> "catch"]
        ELSE IF res.data # NullObj
        THEN [uuid |-> res.data.id, via |-> "row"]
        ELSE [uuid |-> generateDeterministicUUID(manifestoId), via |-> "generated"]

InvalidIdFormat == "Invalid ID format. Expected UUID, integer, or manifesto-{number} format."

\* validateAndNormalizeAgendaId taking an id of no known shape as it is.
validateAndNormalizeAgendaId_AnyShape(id, db, dbError) ==
    IF isRawInteger(id)
    THEN LET got == getOrCreateAgendaUUID(toManifestoFormat(id), db, dbError)
         IN  [isValid |-> TRUE, normalizedId |-> toManifestoFormat(id),
              agendaUUID |-> got.uuid, error |-> Undefined, lookups |-> 1,
              via |-> got.via]
    ELSE IF isManifestoFormat(id)
    THEN LET got == getOrCreateAgendaUUID(id, db, dbError)
         IN  [isValid |-> TRUE, normalizedId |-> id, agendaUUID |-> got.uuid,
              error |-> Undefined, lookups |-> 1, via |-> got.via]
    ELSE [isValid |-> TRUE, normalizedId |-> id, agendaUUID |-> id,
          error |-> Undefined, lookups |-> 0, via |-> "none"]

\* The result of validateAndNormalizeAgendaId, with the number of agenda
\* lookups it made and the way getOrCreateAgendaUUID returned ("none" when it
\* was not called).
validateAndNormalizeAgendaId(id, db, dbError) ==
    IF isValidUUID(id)
    THEN [isValid |-> TRUE, normalizedId |-> id, agendaUUID |-> id,
          error |-> Undefined, lookups |-> 0, via |-> "none"]
    ELSE IF isRawInteger(id)
    THEN LET got == getOrCreateAgendaUUID(toManifestoFormat(id), db, dbError)
         IN  [isValid |-> TRUE, normalizedId |-> toManifestoFormat(id),
              agendaUUID |-> got.uuid, error |-> Undefined, lookups |-> 1,
              via |-> got.via]
    ELSE IF isManifestoFormat(id)
    THEN LET got == getOrCreateAgendaUUID(id, db, dbError)
         IN  [isValid |-> TRUE, normalizedId |-> id, agendaUUID |-> got.uuid,
              error |-> Undefined, lookups |-> 1, via |-> got.via]
    ELSE [isValid |-> FALSE, normalizedId |-> id, agendaUUID |-> Null,
          error |-> InvalidIdFormat, lookups |-> 0, via |-> "none"]

(***************************************************************************)
(* The ids fed to the utility, and the agendas table.                      *)
(***************************************************************************)
\* A well-formed version-4 UUID made of one hexadecimal character.
UuidOf(c) ==
    [i \in 1..36 |-> IF i \in {9, 14, 19, 24} THEN "-"
                     ELSE IF i = 15 THEN "4"
                     ELSE IF i = 20 THEN "8"
                     ELSE c]

DigitStrings ==
    {[i \in 1..k |-> "7"] : k \in 1..MaxDigits}
        \cup {<<"0">>, <<"0", "0", "7">>, <<"1", "2">>}

UuidInputs ==
    {UuidOf("a"), UuidOf("b"), UuidOf("C"),
     [UuidOf("d") EXCEPT ![20] = "B"]}

MalformedInputs ==
    {<<>>, <<"a", "b", "c">>, ManifestoPrefix, ManifestoPrefix \o <<"7", "x">>,
     <<"-", "7">>, <<"7", " ">>,
     [UuidOf("a") EXCEPT ![15] = "6"], [UuidOf("a") EXCEPT ![20] = "c"],
     SubSeq(UuidOf("a"), 1, 35)}

IdInputs ==
    DigitStrings \cup {ManifestoPrefix \o d : d \in DigitStrings}
        \cup UuidInputs \cup MalformedInputs

\* The sequence numbers of the agendas that database seeding adds, and the
\* primary key each gets.
SeedIds == {0, 7}
AgendaRowId(n) == UuidOf(HexChar(10 + (n % 6)))

\* Error codes of a failing database request (NoError: the request is answered).
DbErrors == {NoError, "08006"}


IdInit ==
    /\ agendas = {}
    /\ idCall = NullObj
    /\ idPrev = NullObj

\* Database seeding inserts the agenda row of sequence number n.
SeedAgenda(n) ==
    /\ \A r \in agendas : r.sequence_id # n
    /\ agendas' = agendas \cup {[sequence_id |-> n, id |-> AgendaRowId(n)]}
    /\ UNCHANGED <<idCall, idPrev, outsideIds>>

\* The digits of an id that is all digits or manifesto-<digits>, else Null.
AgendaNumberOf(id) ==
    IF isRawInteger(id) THEN id
    ELSE IF isManifestoFormat(id) THEN SubSeq(id, Len(ManifestoPrefix) + 1, Len(id))
    ELSE Null

\* A request handler calls validateAndNormalizeAgendaId(id); the database
\* answers its lookup, or fails with dbError.
ValidateId(id, dbError) ==
    LET res == validateAndNormalizeAgendaId(id, agendas, dbError)
    IN  /\ res.lookups = 0 => dbError = NoError
        /\ idCall' = [op |-> "validateAndNormalizeAgendaId", id |-> id,
                      db |-> agendas, dbError |-> dbError, res |-> res]
        /\ idPrev' = IF /\ idCall # NullObj
                        /\ idCall.op = "validateAndNormalizeAgendaId"
                        /\ AgendaNumberOf(id) # Null
                        /\ AgendaNumberOf(idCall.id) = AgendaNumberOf(id)
                     THEN idCall ELSE NullObj
        /\ UNCHANGED <<agendas, outsideIds>>

\* A caller converts an id with toManifestoFormat(id).
ToManifestoFormat(id) ==
    /\ idCall' = [op |-> "toManifestoFormat", id |-> id, out |-> toManifestoFormat(id)]
    /\ idPrev' = NullObj
    /\ UNCHANGED <<agendas, outsideIds>>

IdNext ==
    \/ \E n \in SeedIds : SeedAgenda(n)
    \/ \E id \in IdInputs : ToManifestoFormat(id)
    \/ \E id \in IdInputs, e \in DbErrors : ValidateId(id, e)


(***************************************************************************)
(* Properties of the id utility, checked under SpecIds.                    *)
(***************************************************************************)
IsValidateCall(c) == c # NullObj /\ c.op = "validateAndNormalizeAgendaId"

OnlyDecimalDigits(id) ==
    /\ id # <<>>
    /\ \A i \in DOMAIN id :
          id[i] \in {"0", "1", "2", "3", "4", "5", "6", "7", "8", "9"}

\* C2: toManifestoFormat returns "manifesto-" followed by the input when the
\* input is a string of decimal digits, and the input unchanged otherwise.
C2_ToManifestoFormat ==
    (idCall # NullObj /\ idCall.op = "toManifestoFormat")
    => IF OnlyDecimalDigits(idCall.id)
       THEN idCall.out = <<"m", "a", "n", "i", "f", "e", "s", "t", "o", "-">> \o idCall.id
       ELSE idCall.out = idCall.id

\* toManifestoFormat was given an id that holds digits but is not a number.
C2_Witness ==
    /\ idCall # NullObj /\ idCall.op = "toManifestoFormat"
    /\ ~OnlyDecimalDigits(idCall.id)
    /\ \E i \in DOMAIN idCall.id : IsDigit(idCall.id[i])
    /\ idCall.out = idCall.id

\* The agendaUUID of agenda number d (a digit string) in table db: the id of
\* the row whose sequence_id is the number, else the pseudo-UUID.
ExpectedAgendaUUID(d, db) ==
    LET rows == {r \in db : r.sequence_id = ParseInt(d)}
    IN  IF rows # {} THEN (CHOOSE r \in rows : TRUE).id
        ELSE generateDeterministicUUID(ManifestoPrefix \o d)

\* A call of validateAndNormalizeAgendaId with "n" or "manifesto-n" whose
\* lookup the database answered.
IsAnsweredNumberCall(c) ==
    /\ IsValidateCall(c)
    /\ AgendaNumberOf(c.id) # Null
    /\ c.dbError = NoError

\* C3: with the database answering, validateAndNormalizeAgendaId("n") and
\* validateAndNormalizeAgendaId("manifesto-n") both return normalizedId
\* "manifesto-n" and the same agendaUUID: the id of the agendas row whose
\* sequence_id is n when there is one, else generateDeterministicUUID
\* ("manifesto-n"); two calls against the same table agree.
C3_AliasesResolveAlike ==
    /\ \A c \in {idCall, idPrev} :
          IsAnsweredNumberCall(c) =>
              /\ c.res.isValid
              /\ c.res.normalizedId = ManifestoPrefix \o AgendaNumberOf(c.id)
              /\ c.res.agendaUUID = ExpectedAgendaUUID(AgendaNumberOf(c.id), c.db)
    /\ ( /\ IsAnsweredNumberCall(idCall) /\ IsAnsweredNumberCall(idPrev)
         /\ idCall.db = idPrev.db )
       => /\ idCall.res.agendaUUID = idPrev.res.agendaUUID
          /\ idCall.res.normalizedId = idPrev.res.normalizedId

\* "007" and then "manifesto-007" were resolved against a table that holds
\* the row of sequence number 7, and both gave that row's id.
C3_Witness ==
    /\ IsAnsweredNumberCall(idCall) /\ IsAnsweredNumberCall(idPrev)
    /\ idCall.db = idPrev.db
    /\ idPrev.id = <<"0", "0", "7">>
    /\ idCall.id = ManifestoPrefix \o idPrev.id
    /\ \E r \in idCall.db : r.sequence_id = 7 /\ idCall.res.agendaUUID = r.id

\* 8-4-4-4-12 hexadecimal digits of either case, version digit 1 to 5,
\* variant digit 8, 9, a or b.
WellFormedUUID(s) ==
    LET hex == {"0", "1", "2", "3", "4", "5", "6", "7", "8", "9",
                "a", "b", "c", "d", "e", "f", "A", "B", "C", "D", "E", "F"}
        dashes == {9, 14, 19, 24}
    IN  /\ Len(s) = 36
        /\ \A i \in dashes : s[i] = "-"
        /\ \A i \in (1..36) \ dashes : s[i] \in hex
        /\ s[15] \in {"1", "2", "3", "4", "5"}
        /\ s[20] \in {"8", "9", "a", "b", "A", "B"}

\* C4: given a well-formed UUID, validateAndNormalizeAgendaId returns isValid
\* with normalizedId and agendaUUID equal to the input, having made no
\* database lookup: the result is the one an empty table gives.
C4_UUIDPassesThrough ==
    (IsValidateCall(idCall) /\ WellFormedUUID(idCall.id))
    => /\ idCall.res.isValid
       /\ idCall.res.normalizedId = idCall.id
       /\ idCall.res.agendaUUID = idCall.id
       /\ idCall.res.lookups = 0
       /\ idCall.res = validateAndNormalizeAgendaId(idCall.id, {}, NoError)

\* An upper-case UUID was passed through while the table holds rows.
C4_Witness ==
    /\ IsValidateCall(idCall)
    /\ idCall.id = UuidOf("C")
    /\ idCall.res.agendaUUID = idCall.id
    /\ idCall.db # {}

\* C5: every pseudo-UUID generateDeterministicUUID returns for an id
\* manifesto-<n> is accepted by isValidUUID, however many digits n has.
C5_PseudoUUIDIsValid ==
    (IsValidateCall(idCall) /\ idCall.res.via = "generated")
    => isValidUUID(idCall.res.agendaUUID)

(***************************************************************************)
(* components/suggestion-list: SuggestionList.                             *)
(***************************************************************************)
EmptyMap == [k \in {} |-> 0]
Put(map, id, v) == [k \in DOMAIN map \cup {id} |-> IF k = id THEN v ELSE map[k]]

\* voteCounts[id] when the map has no entry for id.
NoCounts == [undefined |-> TRUE]
\* userVotes[id], undefined when the map has no entry.
VoteOf(map, id) == IF id \in DOMAIN map THEN map[id] ELSE Undefined
CountsOf(map, id) == IF id \in DOMAIN map THEN map[id] ELSE NoCounts

\* voteCounts[s.id]?.likes || 0 and voteCounts[s.id]?.dislikes || 0
LikesOf(map, id) == IF CountsOf(map, id) = NoCounts THEN 0 ELSE map[id].likes
DislikesOf(map, id) == IF CountsOf(map, id) = NoCounts THEN 0 ELSE map[id].dislikes

Max(a, b) == IF a >= b THEN a ELSE b

\* The comparator without its tie-break.
Compare_NoTieBreak(a, b, by) ==
    IF by = "popularity" THEN b.netScore - a.netScore
    ELSE IF by = "newest" THEN b.created_at - a.created_at
    ELSE IF by = "oldest" THEN a.created_at - b.created_at
    ELSE 0

\* The comparator of sortedSuggestions.
Compare(a, b, by) ==
    IF by = "popularity"
    THEN IF a.netScore # b.netScore THEN b.netScore - a.netScore
         ELSE b.totalEngagement - a.totalEngagement
    ELSE IF by = "newest" THEN b.created_at - a.created_at
    ELSE IF by = "oldest" THEN a.created_at - b.created_at
    ELSE 0

\* Array.prototype.sort, which is stable: x goes behind every element that
\* does not compare greater than it.
RECURSIVE InsertSorted(_, _, _)
InsertSorted(x, sorted, by) ==
    IF sorted = <<>> THEN <<x>>
    ELSE IF Compare(Head(sorted), x, by) > 0 THEN <<x>> \o sorted
    ELSE <<Head(sorted)>> \o InsertSorted(x, Tail(sorted), by)

RECURSIVE ArraySort(_, _)
ArraySort(arr, by) ==
    IF arr = <<>> THEN <<>>
    ELSE InsertSorted(arr[Len(arr)], ArraySort(SubSeq(arr, 1, Len(arr) - 1), by), by)

WithScore(s, counts) ==
    LET likes == LikesOf(counts, s.id)
        dislikes == DislikesOf(counts, s.id)
    IN  [id |-> s.id, created_at |-> s.created_at, likes |-> likes,
         dislikes |-> dislikes, netScore |-> likes - dislikes,
         totalEngagement |-> likes + dislikes]

sortedSuggestions ==
    ArraySort([i \in DOMAIN suggestions |-> WithScore(suggestions[i], voteCounts)], sortBy)

\* The optimistic update with the toggle branch leaving the counts alone.
OptimisticUpdate_NoDecrement(currentVote, currentCounts, type) ==
    IF currentVote = type
    THEN [vote |-> "null", counts |-> currentCounts]
    ELSE LET likes == currentCounts.likes - (IF currentVote = "like" THEN 1 ELSE 0)
                          + (IF type = "like" THEN 1 ELSE 0)
             dislikes == currentCounts.dislikes - (IF currentVote = "dislike" THEN 1 ELSE 0)
                             + (IF type = "like" THEN 0 ELSE 1)
         IN  [vote |-> type,
              counts |-> [likes |-> Max(0, likes), dislikes |-> Max(0, dislikes)]]

\* The optimistic update without Math.max(0, ...).
OptimisticUpdate_NoClamp(currentVote, currentCounts, type) ==
    LET toggles == currentVote = type
        likes ==
            IF toggles
            THEN currentCounts.likes - (IF type = "like" THEN 1 ELSE 0)
            ELSE currentCounts.likes - (IF currentVote = "like" THEN 1 ELSE 0)
                     + (IF type = "like" THEN 1 ELSE 0)
        dislikes ==
            IF toggles
            THEN currentCounts.dislikes - (IF type = "like" THEN 0 ELSE 1)
            ELSE currentCounts.dislikes - (IF currentVote = "dislike" THEN 1 ELSE 0)
                     + (IF type = "like" THEN 0 ELSE 1)
    IN  [vote |-> IF toggles THEN "null" ELSE type,
         counts |-> [likes |-> likes, dislikes |-> dislikes]]

\* handleVote's optimistic update: the new userVotes[id] and voteCounts[id].
OptimisticUpdate(currentVote, currentCounts, type) ==
    LET toggles == currentVote = type
        newVote == IF toggles THEN "null" ELSE type
        likes ==
            IF toggles
            THEN currentCounts.likes - (IF type = "like" THEN 1 ELSE 0)
            ELSE currentCounts.likes - (IF currentVote = "like" THEN 1 ELSE 0)
                     + (IF type = "like" THEN 1 ELSE 0)
        dislikes ==
            IF toggles
            THEN currentCounts.dislikes - (IF type = "like" THEN 0 ELSE 1)
            ELSE currentCounts.dislikes - (IF currentVote = "dislike" THEN 1 ELSE 0)
                     + (IF type = "like" THEN 0 ELSE 1)
    IN  [vote |-> newVote,
         counts |-> [likes |-> Max(0, likes), dislikes |-> Max(0, dislikes)]]

(***************************************************************************)
(* The vote routes the component talks to (/api/votes/batch and            *)
(* /api/suggestions/:id/vote): one vote row per user and item; voting the  *)
(* type of the row clears it, voting the other type updates it.            *)
(***************************************************************************)
SuggestionIds == <<"s1", "s2", "s3", "s4">>
VoteTypes == {"like", "dislike"}
TheUser == [id |-> "u1"]

\* The feed of n approved suggestions, newest first.
FeedOf(n) == [i \in 1..n |-> [id |-> SuggestionIds[i], created_at |-> n + 1 - i]]

ServerCounts(id) ==
    [likes |-> otherVotes[id].likes + (IF myVote[id] = "like" THEN 1 ELSE 0),
     dislikes |-> otherVotes[id].dislikes + (IF myVote[id] = "dislike" THEN 1 ELSE 0)]

ServerToggle(current, type) == IF current = type THEN "null" ELSE type

(***************************************************************************)
(* The component's steps.                                                  *)
(***************************************************************************)
\* The list with its vote buttons is on screen.
Rendered ==
    /\ location = "page"
    /\ ~loading
    /\ error = "null"
    /\ suggestions # <<>>

ListInit(n) ==
    /\ session \in {NullObj, TheUser}
    /\ feed = FeedOf(n)
    /\ otherVotes \in [{SuggestionIds[i] : i \in 1..n} ->
                          [likes : 0..MaxCount, dislikes : 0..MaxCount]]
    /\ myVote \in [{SuggestionIds[i] : i \in 1..n} -> {"null", "like", "dislike"}]
    /\ session = NullObj => \A id \in DOMAIN myVote : myVote[id] = "null"
    /\ user = NullObj
    /\ suggestions = <<>>
    /\ userVotes = EmptyMap
    /\ voteCounts = EmptyMap
    /\ sortBy = "popularity"
    /\ loading = TRUE
    /\ error = "null"
    /\ location = "page"
    /\ fetchStage = "suggestions"
    /\ requests = <<>>
    /\ errorTimers = 0
    /\ refreshes = 0
    /\ lastEvent = [kind |-> "mount", rid |-> 0]
    /\ clicks = <<>>

\* checkUser: supabase.auth.getUser() answers and setUser stores the user.
checkUser ==
    /\ location = "page"
    /\ user # session
    /\ user' = session
    /\ UNCHANGED <<outsideList, serverVars, suggestions, userVotes, voteCounts, sortBy, loading,
                   error, location, fetchStage, requests, errorTimers, refreshes,
                   lastEvent, clicks>>

\* fetchSuggestions: GET /api/suggestions answers (ok) or fails.
fetchSuggestions(ok) ==
    /\ location = "page"
    /\ fetchStage = "suggestions"
    /\ IF ok
       THEN /\ suggestions' = feed
            /\ IF Len(feed) > 0
               THEN fetchStage' = "votes" /\ UNCHANGED loading
               ELSE fetchStage' = "idle" /\ loading' = FALSE
            /\ UNCHANGED error
       ELSE /\ error' = "Failed to fetch suggestions"
            /\ loading' = FALSE
            /\ fetchStage' = "idle"
            /\ UNCHANGED suggestions
    /\ lastEvent' = [kind |-> "fetch", rid |-> 0]
    /\ clicks' = <<>>
    /\ UNCHANGED <<outsideList, serverVars, user, userVotes, voteCounts, sortBy,
                   location, requests, errorTimers, refreshes>>

\* fetchAllVoteData: POST /api/votes/batch answers (ok) or fails; then the
\* finally block of fetchSuggestions runs.
fetchAllVoteData(ok) ==
    /\ location = "page"
    /\ fetchStage = "votes"
    /\ IF ok
       THEN LET ids == {suggestions[i].id : i \in DOMAIN suggestions}
            IN  /\ voteCounts' = [id \in ids |-> ServerCounts(id)]
                /\ userVotes' = [id \in {x \in ids : myVote[x] # "null"} |-> myVote[id]]
       ELSE UNCHANGED <<voteCounts, userVotes>>
    /\ loading' = FALSE
    /\ fetchStage' = "idle"
    /\ lastEvent' = [kind |-> "fetch", rid |-> 0]
    /\ clicks' = <<>>
    /\ UNCHANGED <<outsideList, serverVars, user, suggestions, sortBy, error,
                   location, requests, errorTimers, refreshes>>

\* fetchAllVoteData answered by a server whose counts lag behind the votes:
\* the counts, all non-negative, do not yet hold the visitor's own vote.
fetchAllVoteDataLagging ==
    /\ location = "page"
    /\ fetchStage = "votes"
    /\ \E id \in DOMAIN myVote : myVote[id] # "null"
    /\ LET ids == {suggestions[i].id : i \in DOMAIN suggestions}
       IN  /\ voteCounts' = [id \in ids |-> otherVotes[id]]
           /\ userVotes' = [id \in {x \in ids : myVote[x] # "null"} |-> myVote[id]]
    /\ loading' = FALSE
    /\ fetchStage' = "idle"
    /\ lastEvent' = [kind |-> "fetch", rid |-> 0]
    /\ clicks' = <<>>
    /\ UNCHANGED <<outsideList, serverVars, user, suggestions, sortBy, error,
                   location, requests, errorTimers, refreshes>>

\* The useEffect on [agendaId, refreshTrigger] runs again.
Refresh ==
    /\ location = "page"
    /\ fetchStage = "idle"
    /\ refreshes < MaxRefreshes
    /\ refreshes' = refreshes + 1
    /\ error' = "null"
    /\ fetchStage' = "suggestions"
    /\ lastEvent' = [kind |-> "refresh", rid |-> 0]
    /\ clicks' = <<>>
    /\ UNCHANGED <<outsideList, serverVars, user, suggestions, userVotes,
                   voteCounts, sortBy, loading, location, requests, errorTimers>>

\* The "Try again" button of the error alert.
TryAgain ==
    /\ location = "page"
    /\ ~loading
    /\ error # "null"
    /\ fetchStage = "idle"
    /\ error' = "null"
    /\ fetchStage' = "suggestions"
    /\ lastEvent' = [kind |-> "retry", rid |-> 0]
    /\ clicks' = <<>>
    /\ UNCHANGED <<outsideList, serverVars, user, suggestions, userVotes,
                   voteCounts, sortBy, loading, location, requests, errorTimers,
                   refreshes>>

\* One of the three sort buttons.
setSortBy(by) ==
    /\ Rendered
    /\ sortBy # by
    /\ sortBy' = by
    /\ lastEvent' = [kind |-> "sort", rid |-> 0]
    /\ UNCHANGED <<outsideList, serverVars, user, suggestions, userVotes, voteCounts, loading,
                   error, location, fetchStage, requests, errorTimers, refreshes,
                   clicks>>

\* handleVote(id, type) up to its await: the redirect of a visitor who is not
\* signed in, else the optimistic update and the request.
handleVote(id, type) ==
    /\ Rendered
    /\ \E i \in DOMAIN suggestions : suggestions[i].id = id
    /\ Len(requests) < MaxClicks
    /\ IF user = NullObj
       THEN /\ location' = "/auth/login"
            /\ UNCHANGED <<userVotes, voteCounts, requests, lastEvent, clicks>>
       ELSE LET currentVote == VoteOf(userVotes, id)
                currentCounts == IF CountsOf(voteCounts, id) = NoCounts
                                 THEN [likes |-> 0, dislikes |-> 0]
                                 ELSE voteCounts[id]
                new == OptimisticUpdate(currentVote, currentCounts, type)
                click == [id |-> id, type |-> type, currentVote |-> currentVote,
                          currentCounts |-> currentCounts, new |-> new]
            IN  /\ userVotes' = Put(userVotes, id, new.vote)
                /\ voteCounts' = Put(voteCounts, id, new.counts)
                /\ requests' = Append(requests,
                                  [id |-> id, type |-> type,
                                   currentVote |-> currentVote,
                                   currentCounts |-> currentCounts,
                                   stage |-> "sent", ok |-> FALSE, data |-> NullObj])
                /\ lastEvent' = [kind |-> "click", rid |-> Len(requests) + 1]
                /\ clicks' = IF clicks # <<>> /\ clicks[Len(clicks)].id = id
                             THEN <<clicks[Len(clicks)], click>>
                             ELSE <<click>>
                /\ UNCHANGED location
    /\ UNCHANGED <<outsideList, serverVars, user, suggestions, sortBy, loading, error,
                   fetchStage, errorTimers, refreshes>>

\* The vote route handles request rid: it toggles the vote row and answers
\* with the new vote and counts (ok), or answers with an error status.
ServerVote(rid, ok) ==
    /\ rid \in DOMAIN requests
    /\ requests[rid].stage = "sent"
    /\ LET r == requests[rid]
           vote == ServerToggle(myVote[r.id], r.type)
       IN  IF ok
           THEN /\ myVote' = [myVote EXCEPT ![r.id] = vote]
                /\ requests' = [requests EXCEPT ![rid] =
                      [r EXCEPT !.stage = "answered", !.ok = TRUE,
                                !.data = [userVote |-> vote,
                                          likes |-> otherVotes[r.id].likes
                                                      + (IF vote = "like" THEN 1 ELSE 0),
                                          dislikes |-> otherVotes[r.id].dislikes
                                                      + (IF vote = "dislike" THEN 1 ELSE 0)]]]
           ELSE /\ requests' = [requests EXCEPT ![rid] = [r EXCEPT !.stage = "answered"]]
                /\ UNCHANGED myVote
    /\ UNCHANGED <<outsideList, session, feed, otherVotes, user, suggestions, userVotes,
                   voteCounts, sortBy, loading, error, location, fetchStage,
                   errorTimers, refreshes, lastEvent, clicks>>

\* handleVote after its await, the response of request rid having arrived.
VoteAnswered(rid) ==
    /\ location = "page"
    /\ rid \in DOMAIN requests
    /\ requests[rid].stage = "answered"
    /\ LET r == requests[rid]
       IN  IF r.ok
           THEN /\ userVotes' = Put(userVotes, r.id, r.data.userVote)
                /\ voteCounts' = Put(voteCounts, r.id,
                                     [likes |-> r.data.likes, dislikes |-> r.data.dislikes])
                /\ lastEvent' = [kind |-> "ok", rid |-> rid]
                /\ UNCHANGED <<error, errorTimers>>
           ELSE /\ userVotes' = Put(userVotes, r.id, r.currentVote)
                /\ voteCounts' = Put(voteCounts, r.id, r.currentCounts)
                /\ error' = "Failed to submit vote"
                /\ errorTimers' = errorTimers + 1
                /\ lastEvent' = [kind |-> "nonok", rid |-> rid]
    /\ requests' = [requests EXCEPT ![rid] = [@ EXCEPT !.stage = "done"]]
    /\ clicks' = <<>>
    /\ UNCHANGED <<outsideList, serverVars, user, suggestions, sortBy, loading, location,
                   fetchStage, refreshes>>

\* The fetch of request rid rejects (a network error), the request having
\* reached the vote route or not: handleVote's catch block runs.
VoteFetchFails(rid, reached) ==
    /\ location = "page"
    /\ rid \in DOMAIN requests
    /\ requests[rid].stage = "sent"
    /\ IF reached
       THEN myVote' = [myVote EXCEPT ![requests[rid].id] =
                          ServerToggle(myVote[requests[rid].id], requests[rid].type)]
       ELSE UNCHANGED myVote
    /\ error' = "Failed to fetch"
    /\ errorTimers' = errorTimers + 1
    /\ requests' = [requests EXCEPT ![rid] = [@ EXCEPT !.stage = "done"]]
    /\ lastEvent' = [kind |-> "neterr", rid |-> rid]
    /\ clicks' = <<>>
    /\ UNCHANGED <<outsideList, session, feed, otherVotes, user, suggestions, userVotes,
                   voteCounts, sortBy, loading, location, fetchStage, refreshes>>

\* A setTimeout(() => setError(null), 5000) fires.
ClearError ==
    /\ location = "page"
    /\ errorTimers > 0
    /\ errorTimers' = errorTimers - 1
    /\ error' = "null"
    /\ lastEvent' = [kind |-> "timer", rid |-> 0]
    /\ UNCHANGED <<outsideList, serverVars, user, suggestions, userVotes, voteCounts, sortBy,
                   loading, location, fetchStage, requests, refreshes, clicks>>

(***************************************************************************)
(* POST /api/suggestions (app/api/suggestions/route.ts).                   *)
(***************************************************************************)
\* A field the JSON body does not have.
Absent == <<"undefined">>

\* String.prototype.trim.
WhiteSpace == {" ", "\t", "\n", "\r"}
RECURSIVE TrimStart(_)
TrimStart(s) ==
    IF s # <<>> /\ Head(s) \in WhiteSpace THEN TrimStart(Tail(s)) ELSE s
RECURSIVE TrimEnd(_)
TrimEnd(s) ==
    IF s # <<>> /\ s[Len(s)] \in WhiteSpace
    THEN TrimEnd(SubSeq(s, 1, Len(s) - 1))
    ELSE s
Trim(s) == TrimEnd(TrimStart(s))

\* !v for a field of the body that is a string, null or absent.
Falsy(v) == v = Absent \/ v = Null \/ v = <<>>

\* The test of a required field without its trim.
FieldMissing_NoTrim(v) == Falsy(v)

\* !content || content.trim().length === 0
FieldMissing(v) == Falsy(v) \/ Len(Trim(v)) = 0

\* The origins isAllowedOrigin accepts.
SiteOrigin == "https://site.example"
AllowedOrigins == {SiteOrigin}
isAllowedOrigin(request) == request.origin \in AllowedOrigins

\* The arguments POST gives checkRateLimit.
RateLimitMax == 5
RateLimitWindowMs == 10 * 60 * 1000

\* The step of the clock: two thirds of the window.
TickMs == 2 * (RateLimitWindowMs \div 3)

\* The times of log later than windowMs before the present.
Within(log, windowMs) == SelectSeq(log, LAMBDA t : t > now - windowMs)

\* checkRateLimit(request, key, limit, windowMs): limit requests of an address
\* go through in any windowMs; log is what the store holds for the address
\* afterwards.
checkRateLimit(request, key, limit, windowMs) ==
    LET recent == Within(rateLog[request.ip], windowMs)
    IN  IF Len(recent) >= limit
        THEN [ok |-> FALSE, log |-> recent,
              response |-> [status |-> 429, error |-> "Too many requests"]]
        ELSE [ok |-> TRUE, log |-> Append(recent, now),
              response |-> NullObj]

\* A handler that never returns the rate limiter's response.
RateLimited_Never(rl) == FALSE

\* !("ok" in rl) || rl.ok === false
RateLimited(rl) == ~("ok" \in DOMAIN rl) \/ rl.ok = FALSE

\* supabase.auth.getUser() for the session of the request.
getUser(request) ==
    IF request.auth = "user" THEN [user |-> TheUser, error |-> NoError]
    ELSE IF request.auth = "error" THEN [user |-> NullObj, error |-> "AuthError"]
    ELSE [user |-> NullObj, error |-> NoError]

\* What POST answers and does: the stage it returned from, the response, the
\* rate limiter's result when it was called, the agenda lookups of the id
\* validation, the number of inserts tried, the row inserted and the email
\* callback queued.
Reply(stage, status, message) ==
    [stage |-> stage, status |-> status, error |-> message, rl |-> NullObj,
     lookups |-> 0, inserts |-> 0, row |-> NullObj, email |-> NullObj,
     autoApproved |-> FALSE, authCalls |-> 0]

\* The insert with the email queued before the result of the insert is read.
InsertSuggestion_EmailFirst(request, theUser, queryId, insertError) ==
    LET agendaData == Single({a \in agendas : a.id = queryId}).data
        settings == IF request.settingsError THEN NullObj ELSE systemSettings
        autoApprove == /\ settings # NullObj
                       /\ settings.auto_approve_suggestions = TRUE
        row == [agenda_id |-> queryId,
                user_id |-> theUser.id,
                content |-> Trim(request.content),
                author_name |-> Trim(request.author_name),
                status |-> IF autoApprove THEN "approved" ELSE "pending"]
        email == [author_name |-> Trim(request.author_name),
                  content |-> Trim(request.content),
                  agenda_title |-> IF agendaData # NullObj
                                   THEN <<"title", agendaData.sequence_id>>
                                   ELSE <<"Unknown Agenda">>]
    IN  IF insertError
        THEN [Reply("insert", 500, "Failed to create suggestion") EXCEPT
                 !.inserts = 1, !.email = email]
        ELSE [Reply("done", 200, NoError) EXCEPT
                 !.inserts = 1, !.row = row, !.email = email,
                 !.autoApproved = autoApprove]

\* Lines 101-163: the insert, the email and the response.
InsertSuggestion(request, theUser, queryId, insertError) ==
    LET agendaData == Single({a \in agendas : a.id = queryId}).data
        settings == IF request.settingsError THEN NullObj ELSE systemSettings
        autoApprove == /\ settings # NullObj
                       /\ settings.auto_approve_suggestions = TRUE
        row == [agenda_id |-> queryId,
                user_id |-> theUser.id,
                content |-> Trim(request.content),
                author_name |-> Trim(request.author_name),
                status |-> IF autoApprove THEN "approved" ELSE "pending"]
        email == [author_name |-> Trim(request.author_name),
                  content |-> Trim(request.content),
                  agenda_title |-> IF agendaData # NullObj
                                   THEN <<"title", agendaData.sequence_id>>
                                   ELSE <<"Unknown Agenda">>]
    IN  IF insertError
        THEN [Reply("insert", 500, "Failed to create suggestion") EXCEPT !.inserts = 1]
        ELSE [Reply("done", 200, NoError) EXCEPT
                 !.inserts = 1, !.row = row, !.email = email,
                 !.autoApproved = autoApprove]

\* Lines 97-101: what follows the validation of the agenda id.
AfterValidation(request, theUser, validation, insertError) ==
    IF ~validation.isValid \/ validation.agendaUUID = Null
    THEN [Reply("validation", 400,
                IF validation.error # Undefined THEN validation.error
                ELSE "Invalid agenda ID")
            EXCEPT !.lookups = validation.lookups]
    ELSE [InsertSuggestion(request, theUser, validation.agendaUUID, insertError)
            EXCEPT !.lookups = validation.lookups]

\* Lines 82-96: the body and its required fields.
HandleBody(request, theUser, dbError, insertError) ==
    IF ~request.json
    THEN Reply("json", 500, "Internal server error")
    ELSE IF Falsy(request.agenda_id)
    THEN Reply("agenda_id", 400, "agenda_id is required")
    ELSE IF FieldMissing(request.content)
    THEN Reply("content", 400, "content is required")
    ELSE IF FieldMissing(request.author_name)
    THEN Reply("author_name", 400, "author_name is required")
    ELSE AfterValidation(request, theUser,
                         validateAndNormalizeAgendaId(request.agenda_id, agendas, dbError),
                         insertError)

\* Lines 66-101 and on: the session, then the body.
HandleSession(request, dbError, insertError) ==
    LET auth == getUser(request)
        out == IF auth.error # NoError
               THEN Reply("auth", 401, "Authentication failed")
               ELSE IF auth.user = NullObj
               THEN Reply("auth", 401, "User not authenticated")
               ELSE HandleBody(request, auth.user, dbError, insertError)
    IN  [out EXCEPT !.authCalls = 1]

\* The handler POST with the session read before the rate limiter is asked.
HandlePost_SessionFirst(request, dbError, insertError) ==
    IF ~isAllowedOrigin(request)
    THEN Reply("origin", 403, "Forbidden")
    ELSE LET out == HandleSession(request, dbError, insertError)
             rl == checkRateLimit(request, "suggestion-create", RateLimitMax, RateLimitWindowMs)
         IN  IF out.status \in {401}
             THEN out
             ELSE IF RateLimited(rl)
             THEN [Reply("rate", rl.response.status, rl.response.error) EXCEPT
                      !.rl = rl, !.authCalls = 1]
             ELSE [out EXCEPT !.rl = rl]

\* The handler POST.
HandlePost(request, dbError, insertError) ==
    IF ~isAllowedOrigin(request)
    THEN Reply("origin", 403, "Forbidden")
    ELSE LET rl == checkRateLimit(request, "suggestion-create", RateLimitMax, RateLimitWindowMs)
         IN  IF RateLimited(rl)
             THEN [Reply("rate", rl.response.status, rl.response.error) EXCEPT !.rl = rl]
             ELSE [HandleSession(request, dbError, insertError) EXCEPT !.rl = rl]

\* The requests the model sends, each with the error code of its agenda
\* lookup (dbError) and with whether its insert fails (insertError): a
\* valid one from the first address, the same with one or two of its parts
\* changed, and a valid one from the second address.
ClientIp == "203.0.113.1"
OtherIp == "203.0.113.2"
Ips == {ClientIp, OtherIp}
Text == <<" ", "o", "k", " ">>
ValidPost ==
    [ip |-> ClientIp, origin |-> SiteOrigin, auth |-> "user", json |-> TRUE,
     agenda_id |-> <<"7">>, content |-> Text, author_name |-> <<"A", "l">>,
     dbError |-> NoError, insertError |-> FALSE, settingsError |-> FALSE]
BlankTexts == {<<>>, <<" ">>, <<"\t", " ", "\n">>}
PostInputs ==
    {ValidPost,
     [ValidPost EXCEPT !.origin = "https://other.example"],
     [ValidPost EXCEPT !.auth = "none"],
     [ValidPost EXCEPT !.auth = "error"],
     [ValidPost EXCEPT !.json = FALSE],
     [ValidPost EXCEPT !.agenda_id = Absent],
     [ValidPost EXCEPT !.agenda_id = <<"a", "b", "c">>],
     [ValidPost EXCEPT !.agenda_id = <<"1", "2">>],
     [ValidPost EXCEPT !.agenda_id = ManifestoPrefix \o <<"7">>],
     [ValidPost EXCEPT !.agenda_id = UuidOf("e")],
     [ValidPost EXCEPT !.dbError = "08006"],
     [ValidPost EXCEPT !.insertError = TRUE],
     [ValidPost EXCEPT !.settingsError = TRUE],
     [ValidPost EXCEPT !.agenda_id = UuidOf("e"), !.insertError = TRUE],
     [ValidPost EXCEPT !.content = Absent],
     [ValidPost EXCEPT !.author_name = Absent],
     [ValidPost EXCEPT !.content = <<>>, !.author_name = <<>>],
     [ValidPost EXCEPT !.content = <<" ">>, !.agenda_id = <<"a", "b", "c">>],
     [ValidPost EXCEPT !.content = <<" ">>, !.agenda_id = Absent],
     [ValidPost EXCEPT !.content = <<>>, !.auth = "none"],
     [ValidPost EXCEPT !.author_name = <<" ">>, !.origin = "https://other.example"]}
        \cup {[ValidPost EXCEPT !.content = b] : b \in BlankTexts}
        \cup {[ValidPost EXCEPT !.author_name = b] : b \in BlankTexts}
        \cup {[ValidPost EXCEPT !.ip = OtherIp]}

\* The requests the model sends while time passes: a valid one from each
\* address, and from the first address one that is not signed in, one with
\* blank content and one of another origin.
RateInputs ==
    {ValidPost,
     [ValidPost EXCEPT !.ip = OtherIp],
     [ValidPost EXCEPT !.auth = "none"],
     [ValidPost EXCEPT !.content = <<" ">>],
     [ValidPost EXCEPT !.origin = "https://other.example"]}

\* The rows system_settings can hold.
SettingsRows ==
    {NullObj, [auto_approve_suggestions |-> TRUE], [auto_approve_suggestions |-> FALSE]}

PostInit ==
    /\ now = 0
    /\ rateLog = [ip \in Ips |-> <<>>]
    /\ passed = [ip \in Ips |-> <<>>]
    /\ suggestionsTable = <<>>
    /\ systemSettings \in SettingsRows
    /\ emailTasks = <<>>
    /\ emailLog = FALSE
    /\ otherPosts = 0
    /\ lastPost = NullObj
    /\ lastGet = NullObj

\* One request handled by POST.
POST(request) ==
    /\ request.ip = OtherIp => otherPosts < MaxOtherPosts
    /\ \E out \in {HandlePost(request, request.dbError, request.insertError)},
          ip \in {request.ip} :
        /\ out.row # NullObj => Len(suggestionsTable) < MaxRows
        /\ rateLog' = IF out.rl = NullObj THEN rateLog
                      ELSE [rateLog EXCEPT ![ip] = out.rl.log]
        /\ passed' = IF out.stage \in {"origin", "rate"} THEN passed
                     ELSE [passed EXCEPT
                              ![ip] = Append(Within(passed[ip], RateLimitWindowMs), now)]
        /\ suggestionsTable' = IF out.row = NullObj THEN suggestionsTable
                               ELSE Append(suggestionsTable, out.row)
        /\ emailTasks' = IF out.email = NullObj THEN emailTasks
                         ELSE Append(emailTasks, out.email)
        /\ otherPosts' = IF ip = OtherIp THEN otherPosts + 1 ELSE otherPosts
        /\ lastPost' = [request |-> request,
                        stage |-> out.stage, status |-> out.status,
                        error |-> out.error, autoApproved |-> out.autoApproved,
                        lookups |-> out.lookups, inserts |-> out.inserts,
                        authCalls |-> out.authCalls,
                        rowsBefore |-> Len(suggestionsTable)]
        /\ UNCHANGED <<outsidePost, now, systemSettings, emailLog>>

\* The callback of setImmediate runs: the email request is sent; fetch
\* resolves (ok) or rejects, and the catch block logs the rejection.
SendEmail(ok) ==
    /\ emailTasks # <<>>
    /\ emailTasks' = Tail(emailTasks)
    /\ emailLog' = (emailLog \/ ~ok)
    /\ UNCHANGED <<outsidePost, now, rateLog, passed, suggestionsTable,
                   systemSettings, otherPosts, lastPost>>

\* Time passes.
Tick ==
    /\ now < MaxTime * TickMs
    /\ now' = now + TickMs
    /\ lastPost' = NullObj
    /\ UNCHANGED <<outsidePost, rateLog, passed, suggestionsTable,
                   systemSettings, emailTasks, emailLog, otherPosts>>

(***************************************************************************)
(* GET /api/suggestions (app/api/suggestions/route.ts), and the steps of   *)
(* the administrators that change what it reads.                           *)
(***************************************************************************)
\* The rows of the given indices of the suggestions table, latest first, with
\* the columns GET selects; a row's index stands for its id and created_at.
RECURSIVE OrderByCreatedAtDesc(_, _)
OrderByCreatedAtDesc(table, indices) ==
    IF indices = {} THEN <<>>
    ELSE LET i == CHOOSE k \in indices : \A j \in indices : j <= k
         IN  <<[id |-> i, content |-> table[i].content,
                author_name |-> table[i].author_name, created_at |-> i]>>
               \o OrderByCreatedAtDesc(table, indices \ {i})

\* The select without its status filter.
SelectApproved_AnyStatus(table, queryId) ==
    OrderByCreatedAtDesc(table, {i \in DOMAIN table : table[i].agenda_id = queryId})

\* .eq("agenda_id", queryId).eq("status", "approved")
\*    .order("created_at", { ascending: false })
SelectApproved(table, queryId) ==
    OrderByCreatedAtDesc(table,
        {i \in DOMAIN table : /\ table[i].agenda_id = queryId
                              /\ table[i].status = "approved"})

\* What GET answers: the stage it returned from, the response, the agenda
\* lookups of the id validation and the number of selects on suggestions.
GetReply(stage, status, message) ==
    [stage |-> stage, status |-> status, error |-> message, lookups |-> 0,
     queries |-> 0, suggestions |-> <<>>, agenda_id |-> Null]

\* Lines 21-51: what follows the validation of the agenda id.
GetAfterValidation(request, validation) ==
    IF ~validation.isValid \/ validation.agendaUUID = Null
    THEN [GetReply("validation", 400,
                   IF validation.error # Undefined THEN validation.error
                   ELSE "Invalid agenda ID")
            EXCEPT !.lookups = validation.lookups]
    ELSE IF request.queryError
    THEN [GetReply("query", 500, "Database error")
            EXCEPT !.lookups = validation.lookups, !.queries = 1]
    ELSE [GetReply("done", 200, NoError)
            EXCEPT !.lookups = validation.lookups, !.queries = 1,
                   !.suggestions = SelectApproved(suggestionsTable, validation.agendaUUID),
                   !.agenda_id = validation.agendaUUID]

\* The handler GET; agenda_id is Null when the URL has no such parameter.
HandleGet(request) ==
    IF Falsy(request.agenda_id)
    THEN GetReply("agenda_id", 400, "agenda_id parameter is required")
    ELSE GetAfterValidation(request,
            validateAndNormalizeAgendaId(request.agenda_id, agendas, request.dbError))

\* The requests the model sends to GET, each with the error code of its
\* agenda lookup and with whether its select fails.
ValidGet == [agenda_id |-> <<"7">>, dbError |-> NoError, queryError |-> FALSE]
GetInputs ==
    {ValidGet,
     [ValidGet EXCEPT !.agenda_id = Null],
     [ValidGet EXCEPT !.agenda_id = <<>>],
     [ValidGet EXCEPT !.agenda_id = ManifestoPrefix \o <<"7">>],
     [ValidGet EXCEPT !.agenda_id = AgendaRowId(7)],
     [ValidGet EXCEPT !.agenda_id = <<"1", "2">>],
     [ValidGet EXCEPT !.agenda_id = <<"a", "b", "c">>],
     [ValidGet EXCEPT !.agenda_id = ManifestoPrefix \o <<"7", "x">>],
     [ValidGet EXCEPT !.dbError = "08006"],
     [ValidGet EXCEPT !.queryError = TRUE]}

\* One request handled by GET.
GET(request) ==
    /\ \E out \in {HandleGet(request)} :
          lastGet' = [request |-> request, stage |-> out.stage,
                      status |-> out.status, error |-> out.error,
                      lookups |-> out.lookups, queries |-> out.queries,
                      suggestions |-> out.suggestions, agenda_id |-> out.agenda_id]
    /\ UNCHANGED <<outsideGet, postVars>>

\* An administrator writes the auto_approve_suggestions setting.
SetAutoApprove(row) ==
    /\ row # systemSettings
    /\ systemSettings' = row
    /\ UNCHANGED <<outsidePost, now, rateLog, passed, suggestionsTable,
                   emailTasks, emailLog, otherPosts, lastPost>>

\* A moderator sets the status of a suggestion.
ModerationStatuses == {"pending", "approved", "rejected"}
ModerateSuggestion(i, status) ==
    /\ i \in DOMAIN suggestionsTable
    /\ suggestionsTable[i].status # status
    /\ suggestionsTable' = [suggestionsTable EXCEPT ![i].status = status]
    /\ UNCHANGED <<outsidePost, now, rateLog, passed, systemSettings,
                   emailTasks, emailLog, otherPosts, lastPost>>

(***************************************************************************)
(* The deployment: process.env and the profiles table.                     *)
(***************************************************************************)
\* String.prototype.startsWith and String.prototype.includes.
StartsWith(s, prefix) == MatchesAt(s, prefix, 0)
Includes(s, part) == \E k \in 0..Len(s) : MatchesAt(s, part, k)

\* The values of the environment: a variable is Absent, empty, a placeholder
\* or real.
PlaceholderUrl == <<"https://placeholder.supabase.co">>
RealUrl == <<"https://db.example">>
Placeholder == <<"p", "l", "a", "c", "e", "h", "o", "l", "d", "e", "r">>
PlaceholderKey == <<"x", "-">> \o Placeholder \o <<"-", "k">>
RealKey == <<"e", "y", "J">>
UrlValues == {Absent, <<>>, PlaceholderUrl, RealUrl}
KeyValues == {Absent, <<>>, PlaceholderKey, RealKey}
Environments ==
    [NEXT_PUBLIC_SUPABASE_URL : UrlValues,
     NEXT_PUBLIC_SUPABASE_ANON_KEY : KeyValues,
     SUPABASE_SERVICE_ROLE_KEY : {Absent, PlaceholderKey, RealKey}]
RealEnvironment ==
    [NEXT_PUBLIC_SUPABASE_URL |-> RealUrl,
     NEXT_PUBLIC_SUPABASE_ANON_KEY |-> RealKey,
     SUPABASE_SERVICE_ROLE_KEY |-> RealKey]

\* The users and the roles of their profiles; NoRole: the user has no profile.
UserIds == {"u1", "u2"}
NoRole == "none"
Roles == {"admin", "moderator", "user"}

\* The session of a request: a user, nobody, or one getUser fails on.
Sessions == {[auth |-> "user", id |-> u] : u \in UserIds}
                \cup {[auth |-> "none", id |-> "none"], [auth |-> "error", id |-> "none"]}

\* supabase.auth.getUser() of a real client for a session.
SessionUser(sess) ==
    IF sess.auth = "user" THEN [user |-> [id |-> sess.id], error |-> NoError]
    ELSE IF sess.auth = "error" THEN [user |-> NullObj, error |-> "AuthError"]
    ELSE [user |-> NullObj, error |-> NoError]

\* supabase.from('profiles').select('role').eq('id', id).single() of a real
\* client: data is the row, or NullObj when there is none or the query fails.
ProfileOf(id, queryFails) ==
    IF queryFails \/ profiles[id] = NoRole THEN NullObj
    ELSE [role |-> profiles[id]]

EnvInit ==
    /\ processEnv \in Environments
    /\ profiles \in [UserIds -> Roles \cup {NoRole}]

(***************************************************************************)
(* The middleware (middleware.ts).                                         *)
(***************************************************************************)
ApiAdmin == <<"/", "a", "p", "i", "/", "a", "d", "m", "i", "n">>

\* A middleware that asks any profile with a role through.
RoleIsAdmin_AnyRole(profile) == profile # NullObj

\* profile?.role === 'admin'
RoleIsAdmin(profile) == profile # NullObj /\ profile.role = "admin"

\* middleware(req): "next" when the request goes on to its route, else the
\* status of the response the middleware answers with.
middleware(req) ==
    LET supabaseUrl == processEnv.NEXT_PUBLIC_SUPABASE_URL
        supabaseAnonKey == processEnv.NEXT_PUBLIC_SUPABASE_ANON_KEY
        got == SessionUser(req.session)
    IN  IF Falsy(supabaseUrl) \/ Falsy(supabaseAnonKey)
        THEN [returns |-> "next", stage |-> "unconfigured", error |-> NoError]
        ELSE IF StartsWith(req.pathname, ApiAdmin)
        THEN IF got.error # NoError \/ got.user = NullObj
             THEN [returns |-> "401", stage |-> "auth", error |-> "Unauthorized"]
             ELSE IF ~RoleIsAdmin(ProfileOf(got.user.id, req.profileError))
             THEN [returns |-> "403", stage |-> "role", error |-> "Forbidden"]
             ELSE [returns |-> "next", stage |-> "admin", error |-> NoError]
        ELSE [returns |-> "next", stage |-> "public", error |-> NoError]

\* The paths of the requests the model sends.
Pathnames ==
    {ApiAdmin,
     ApiAdmin \o <<"/", "u", "s", "e", "r", "s">>,
     ApiAdmin \o <<"s">>,
     <<"/", "a", "p", "i", "/", "v", "o", "t", "e", "s">>,
     <<"/", "a", "d", "m", "i", "n">>,
     <<"/">>}
GateInputs ==
    [pathname : Pathnames, session : Sessions, profileError : BOOLEAN]

GateIdle == lastGate = NullObj

\* One request handled by the middleware.
Middleware(req) ==
    /\ req.profileError => (req.session.auth = "user" /\ StartsWith(req.pathname, ApiAdmin))
    /\ \E out \in {middleware(req)} :
          lastGate' = [request |-> req, returns |-> out.returns,
                       stage |-> out.stage, error |-> out.error]
    /\ UNCHANGED outsideGate

\* An administrator changes the role of a user's profile.
SetRole(id, role) ==
    /\ profiles[id] # role
    /\ profiles' = [profiles EXCEPT ![id] = role]
    /\ lastGate' = NullObj
    /\ lastTestimonial' = NullObj
    /\ UNCHANGED <<idVars, listVars, postVars, getVars, processEnv, testimonials,
                   manifestoVars, clientVars>>

(***************************************************************************)
(* The database clients (lib/supabase/server.ts).                          *)
(***************************************************************************)
\* createMockClient(): the client of build time.
createMockClient == [kind |-> "mock", key |-> Absent, cookies |-> FALSE]

\* createClient(): the mock client for a missing or placeholder URL or anon
\* key, else a real client on the cookies of the request.
createClient ==
    LET supabaseUrl == processEnv.NEXT_PUBLIC_SUPABASE_URL
        supabaseAnonKey == processEnv.NEXT_PUBLIC_SUPABASE_ANON_KEY
    IN  IF \/ Falsy(supabaseUrl)
           \/ Falsy(supabaseAnonKey)
           \/ supabaseUrl = PlaceholderUrl
           \/ Includes(supabaseAnonKey, Placeholder)
        THEN createMockClient
        ELSE [kind |-> "real", key |-> supabaseAnonKey, cookies |-> TRUE]

\* createServiceClient() without its test for placeholders.
createServiceClient_NoPlaceholderTest ==
    LET supabaseUrl == processEnv.NEXT_PUBLIC_SUPABASE_URL
        serviceRoleKey == processEnv.SUPABASE_SERVICE_ROLE_KEY
    IN  IF Falsy(supabaseUrl) \/ Falsy(serviceRoleKey)
        THEN createMockClient
        ELSE [kind |-> "real", key |-> serviceRoleKey, cookies |-> FALSE]

\* createServiceClient() building its client on the cookies of the request,
\* as createClient does.
createServiceClient_CookieBound ==
    LET supabaseUrl == processEnv.NEXT_PUBLIC_SUPABASE_URL
        serviceRoleKey == processEnv.SUPABASE_SERVICE_ROLE_KEY
    IN  IF \/ Falsy(supabaseUrl)
           \/ Falsy(serviceRoleKey)
           \/ supabaseUrl = PlaceholderUrl
           \/ Includes(serviceRoleKey, Placeholder)
        THEN createMockClient
        ELSE [kind |-> "real", key |-> serviceRoleKey, cookies |-> TRUE]

\* createServiceClient(): the mock client for a missing or placeholder URL or
\* service role key, else a real client that reads no cookies.
createServiceClient ==
    LET supabaseUrl == processEnv.NEXT_PUBLIC_SUPABASE_URL
        serviceRoleKey == processEnv.SUPABASE_SERVICE_ROLE_KEY
    IN  IF \/ Falsy(supabaseUrl)
           \/ Falsy(serviceRoleKey)
           \/ supabaseUrl = PlaceholderUrl
           \/ Includes(serviceRoleKey, Placeholder)
        THEN createMockClient
        ELSE [kind |-> "real", key |-> serviceRoleKey, cookies |-> FALSE]

\* client.auth.getUser(): the mock client knows no user, and a real client
\* reads the session from the cookies it was given.
GetUserOf(client, sess) ==
    IF client.kind = "mock" \/ ~client.cookies
    THEN [user |-> NullObj, error |-> NoError]
    ELSE SessionUser(sess)

\* .from('profiles').select('role').eq('id', id).single(): data.
ProfileVia(client, id, queryFails) ==
    IF client.kind = "mock" THEN NullObj ELSE ProfileOf(id, queryFails)

\* The rows a query of a client may read: a client that carries the cookies
\* of the request reads as the user of its session, under row-level security
\* (here: rows are shown to signed-in users only); a client without cookies
\* reads every row.
RowsVisible(client, sess, rows) ==
    IF client.cookies /\ SessionUser(sess).user = NullObj THEN {} ELSE rows

\* The text of the error a failing database request reports.
DbMessage == "connection to server was lost"

(***************************************************************************)
(* /api/testimonials (app/api/testimonials/route.ts).                      *)
(***************************************************************************)
DEFAULT_LIMIT == 50

Min(a, b) == IF a < b THEN a ELSE b

\* Numbers are kept in tenths, so that a limit of 0.5 is the value 5.
Tenths == 10

\* Number(searchParams.get(name)) of the parameters the model sends, in
\* tenths: absent (Null), empty, decimal digits, a minus sign and digits,
\* digits with one decimal after a point, or no number.
ToNumber(param) ==
    IF param = Null \/ param = <<>> THEN [finite |-> TRUE, value |-> 0]
    ELSE IF isRawInteger(param)
    THEN [finite |-> TRUE, value |-> Tenths * ParseInt(param)]
    ELSE IF Head(param) = "-" /\ isRawInteger(Tail(param))
    THEN [finite |-> TRUE, value |-> 0 - Tenths * ParseInt(Tail(param))]
    ELSE IF /\ Len(param) >= 3
            /\ param[Len(param) - 1] = "."
            /\ isRawInteger(SubSeq(param, 1, Len(param) - 2))
            /\ IsDigit(param[Len(param)])
    THEN [finite |-> TRUE,
          value |-> Tenths * ParseInt(SubSeq(param, 1, Len(param) - 2))
                      + ParseInt(<<param[Len(param)]>>)]
    ELSE [finite |-> FALSE, value |-> 0]

\* The rows of a set by display_order ascending, then created_at descending,
\* with the columns GET selects.
RECURSIVE OrderTestimonials(_)
OrderTestimonials(rows) ==
    IF rows = {} THEN <<>>
    ELSE LET first == CHOOSE r \in rows : \A q \in rows :
                          \/ r.display_order < q.display_order
                          \/ /\ r.display_order = q.display_order
                             /\ r.created_at >= q.created_at
         IN  <<[id |-> first.id, name |-> first.name,
                display_order |-> first.display_order,
                created_at |-> first.created_at]>>
               \o OrderTestimonials(rows \ {first})

\* .range(from, to): the rows at the 0-based positions from..to.
RangeOf(rows, from, to) == SubSeq(rows, from + 1, Min(to + 1, Len(rows)))

\* The bounds of a range are whole numbers.
WholeRange(from, to) == from % Tenths = 0 /\ to % Tenths = 0

\* What a testimonials handler answers and does.
TestimonialReply(stage, status, message) ==
    [stage |-> stage, status |-> status, error |-> message, data |-> <<>>,
     logged |-> FALSE, readBody |-> FALSE, row |-> NullObj,
     client |-> "none", cookies |-> FALSE, range |-> NullObj]

\* Number.isFinite(limitParam) && limitParam > 0
\*    ? Math.min(limitParam, 200) : DEFAULT_LIMIT
GetLimit(limitParam) ==
    IF limitParam.finite /\ limitParam.value > 0
    THEN Min(limitParam.value, Tenths * 200)
    ELSE Tenths * DEFAULT_LIMIT

\* Number.isFinite(offsetParam) && offsetParam >= 0 ? offsetParam : 0
GetOffset(offsetParam) ==
    IF offsetParam.finite /\ offsetParam.value >= 0 THEN offsetParam.value ELSE 0

\* The handler GET. The range it asks for is kept in tenths; the database
\* answers a range whose bounds are not whole numbers with an error.
GetTestimonials(request) ==
    LET supabase == createServiceClient
        limit == GetLimit(ToNumber(request.limit))
        offset == GetOffset(ToNumber(request.offset))
        from == offset
        to == offset + limit - Tenths
        active == RowsVisible(supabase, request.session,
                              {testimonials[i] : i \in {j \in DOMAIN testimonials :
                                                    testimonials[j].is_active = TRUE}})
        out == IF supabase.kind = "real" /\ request.throws
               THEN [TestimonialReply("catch", 500, "Internal server error")
                        EXCEPT !.logged = TRUE]
               ELSE IF supabase.kind = "real"
                         /\ (request.dbError # NoError \/ ~WholeRange(from, to))
               THEN [TestimonialReply("query", 500, DbMessage) EXCEPT
                        !.logged = TRUE, !.range = <<from, to>>]
               ELSE IF supabase.kind = "mock"
               THEN [TestimonialReply("done", 200, NoError) EXCEPT
                        !.range = <<from, to>>]
               ELSE [TestimonialReply("done", 200, NoError) EXCEPT
                        !.range = <<from, to>>,
                        !.data = RangeOf(OrderTestimonials(active),
                                         from \div Tenths, to \div Tenths)]
    IN  [out EXCEPT !.client = supabase.kind, !.cookies = supabase.cookies]

\* The role test of POST with the comparison of the role left out.
MayWrite_AnyProfile(profile) == profile # NullObj

\* The negation of the test of POST on the profile:
\* !profile?.role || (role !== 'admin' && role !== 'moderator').
MayWrite(profile) ==
    /\ profile # NullObj
    /\ profile.role \in {"admin", "moderator"}

\* Lines 50-73 of the handler POST: the role, the body and the insert.
PostTestimonialAs(request, supabase, theUser) ==
    LET profile == ProfileVia(supabase, theUser.id, request.profileError)
    IN  IF ~MayWrite(profile)
        THEN TestimonialReply("role", 403, "Forbidden")
        ELSE IF ~request.json
        THEN [TestimonialReply("json", 500, "uncaught") EXCEPT !.readBody = TRUE]
        ELSE IF request.dbError # NoError
        THEN [TestimonialReply("insert", 500, DbMessage) EXCEPT !.readBody = TRUE]
        ELSE [TestimonialReply("done", 200, NoError) EXCEPT
                 !.readBody = TRUE,
                 !.row = [id |-> Len(testimonials) + 1,
                          name |-> request.body.name,
                          is_active |-> request.body.is_active,
                          display_order |-> request.body.display_order,
                          created_at |-> Len(testimonials) + 1]]

\* The handler POST.
PostTestimonials(request) ==
    LET supabase == createClient
        got == GetUserOf(supabase, request.session)
        out == IF got.user = NullObj
               THEN TestimonialReply("auth", 401, "Unauthorized")
               ELSE PostTestimonialAs(request, supabase, got.user)
    IN  [out EXCEPT !.client = supabase.kind, !.cookies = supabase.cookies]

\* The rows of the testimonials table at the start.
SeedTestimonials ==
    <<[id |-> 1, name |-> "Asha", is_active |-> TRUE, display_order |-> 2, created_at |-> 1],
      [id |-> 2, name |-> "Bina", is_active |-> FALSE, display_order |-> 1, created_at |-> 2],
      [id |-> 3, name |-> "Chet", is_active |-> TRUE, display_order |-> 1, created_at |-> 3]>>

\* The requests the model sends to the two handlers.
ParamValues ==
    {Null, <<>>, <<"0">>, <<"1">>, <<"2">>, <<"-", "1">>, <<"a">>, <<"2", "5", "0">>,
     <<"0", ".", "5">>}
TestimonialBodies ==
    [name : {"Dev"}, is_active : BOOLEAN, display_order : {1, 3}]
ValidTestimonialGet ==
    [limit |-> Null, offset |-> Null, dbError |-> NoError, throws |-> FALSE,
     session |-> [auth |-> "none", id |-> "none"]]
TestimonialGetInputs ==
    {[ValidTestimonialGet EXCEPT !.limit = l, !.offset = o] :
        l \in ParamValues, o \in {Null, <<"1">>, <<"-", "1">>, <<"a">>}}
      \cup {[ValidTestimonialGet EXCEPT !.dbError = "08006"],
            [ValidTestimonialGet EXCEPT !.throws = TRUE],
            [ValidTestimonialGet EXCEPT !.session = [auth |-> "user", id |-> "u1"]],
            [ValidTestimonialGet EXCEPT !.session = [auth |-> "error", id |-> "none"],
                                        !.limit = <<"1">>]}
TestimonialPostInputs ==
    [session : Sessions, profileError : BOOLEAN, json : BOOLEAN,
     dbError : DbErrors, body : TestimonialBodies]

TestimonialsInit ==
    /\ testimonials = SeedTestimonials
    /\ lastTestimonial = NullObj

\* One request handled by GET /api/testimonials.
TestimonialsGET(request) ==
    /\ \E out \in {GetTestimonials(request)} :
          /\ (request.dbError # NoError \/ request.throws) => out.client = "real"
          /\ lastTestimonial' = [op |-> "GET", request |-> request, out |-> out,
                                 rowsBefore |-> Len(testimonials)]
    /\ UNCHANGED <<outsideTestimonials, testimonials>>

\* One request handled by POST /api/testimonials; the environment of a step
\* the handler does not reach is the one of no failure.
TestimonialsPOST(request) ==
    /\ \E out \in {PostTestimonials(request)} :
          /\ request.profileError => out.stage # "auth"
          /\ (~request.json \/ request.body # CHOOSE b \in TestimonialBodies : TRUE)
                => out.readBody
          /\ request.dbError # NoError => out.stage \in {"insert", "done"}
          /\ (request.dbError # NoError /\ out.stage = "done") => FALSE
          /\ out.row # NullObj =>
                Len(testimonials) < Len(SeedTestimonials) + MaxTestimonials
          /\ testimonials' = IF out.row = NullObj THEN testimonials
                             ELSE Append(testimonials, out.row)
          /\ lastTestimonial' = [op |-> "POST", request |-> request, out |-> out,
                                 rowsBefore |-> Len(testimonials)]
    /\ UNCHANGED outsideTestimonials

(***************************************************************************)
(* ManifestoList (components/manifesto-list.tsx).                          *)
(***************************************************************************)
\* String.prototype.toLowerCase on the letters of the model.
ToLowerCase(s) ==
    [i \in 1..Len(s) |->
        IF \E k \in DOMAIN UpperChars : UpperChars[k] = s[i]
        THEN LowerChars[CHOOSE k \in DOMAIN UpperChars : UpperChars[k] = s[i]]
        ELSE s[i]]

timelineMap ==
    [t \in {"180 days", "6 months", "1 year", "18 months", "2 years", "3 years",
            "5 years"} |->
        CASE t = "180 days" -> 6
          [] t = "6 months" -> 6
          [] t = "1 year" -> 12
          [] t = "18 months" -> 18
          [] t = "2 years" -> 24
          [] t = "3 years" -> 36
          [] t = "5 years" -> 60]

\* getTimelineInMonths without the default for a timeline it does not know.
getTimelineInMonths_NoDefault(timeline) ==
    IF timeline \in DOMAIN timelineMap THEN timelineMap[timeline] ELSE 0

\* timelineMap[timeline] || 12
getTimelineInMonths(timeline) ==
    IF timeline \in DOMAIN timelineMap THEN timelineMap[timeline] ELSE 12

\* Array.prototype.includes.
ArrayIncludes(array, value) == \E k \in DOMAIN array : array[k] = value

\* The callback of manifestoData.filter.
ItemPasses(item, f) ==
    LET searchLower == ToLowerCase(f.searchQuery)
        matchesTitle == Includes(ToLowerCase(item.title), searchLower)
        matchesDescription == Includes(ToLowerCase(item.description), searchLower)
        matchesCategory == Includes(ToLowerCase(item.category), searchLower)
        itemTimelineInMonths == getTimelineInMonths(item.timeline)
    IN  IF f.searchQuery # <<>> /\ ~matchesTitle /\ ~matchesDescription /\ ~matchesCategory
        THEN FALSE
        ELSE IF Len(f.selectedCategories) > 0
                  /\ ~ArrayIncludes(f.selectedCategories, item.category)
        THEN FALSE
        ELSE IF Len(f.selectedPriorities) > 0
                  /\ ~ArrayIncludes(f.selectedPriorities, item.priority)
        THEN FALSE
        ELSE IF \/ itemTimelineInMonths < f.timelineRange[1]
                \/ itemTimelineInMonths > f.timelineRange[2]
        THEN FALSE
        ELSE TRUE

\* filteredData
FilteredData(data, f) ==
    LET Keep(item) == ItemPasses(item, f)
    IN  IF Len(data) = 0 THEN <<>> ELSE SelectSeq(data, Keep)

\* likes - dislikes of voteCountsMap.get(id) || { likes: 0, dislikes: 0 }
ScoreOf(id, votes) ==
    Cardinality({k \in DOMAIN votes :
                    votes[k].manifesto_id = id /\ votes[k].vote_type = "like"})
      - Cardinality({k \in DOMAIN votes :
                    votes[k].manifesto_id = id /\ votes[k].vote_type = "dislike"})

\* One item put into a list sorted by bScore - aScore, behind its equals
\* (Array.prototype.sort is stable).
InsertByScore(sorted, item, votes) ==
    LET behind == {k \in 1..Len(sorted) :
                      ScoreOf(sorted[k].id, votes) >= ScoreOf(item.id, votes)}
        at == IF behind = {} THEN 0 ELSE CHOOSE k \in behind : \A j \in behind : j <= k
    IN  SubSeq(sorted, 1, at) \o <<item>> \o SubSeq(sorted, at + 1, Len(sorted))

\* sortedData
RECURSIVE SortedData(_, _)
SortedData(list, votes) ==
    IF list = <<>> THEN <<>>
    ELSE InsertByScore(SortedData(SubSeq(list, 1, Len(list) - 1), votes),
                       list[Len(list)], votes)

\* What reading and writing a JavaScript array at a 0-based index give: a
\* read outside the array is undefined, a write outside makes it longer.
UndefinedItem == [id |-> "undefined"]
ArrayGet(array, k) == IF k < Len(array) THEN array[k + 1] ELSE UndefinedItem
ArraySet(array, k, value) ==
    IF k < Len(array) THEN [array EXCEPT ![k + 1] = value]
    ELSE array \o [j \in 1..(k - Len(array)) |-> UndefinedItem] \o <<value>>

\* The index of the shuffle with the remainder taken by m + 1.
PickIndex_Inclusive(seed, m) ==
    ((seed.num * 1000000) % ((m + 1) * seed.den)) \div seed.den

\* Math.floor((randomSeed * 1000000) % m) for the seed num / den: the
\* remainder of num * 1000000 / den by m is (num * 1000000 % (m * den)) / den.
PickIndex(seed, m) ==
    ((seed.num * 1000000) % (m * seed.den)) \div seed.den

\* The loop of the shuffle from m on: the array, and the pairs <<m, i>> of
\* the positions it swapped.
RECURSIVE ShuffleLoop(_, _, _, _)
ShuffleLoop(shuffled, m, seed, swaps) ==
    IF m = 0 THEN [array |-> shuffled, swaps |-> swaps]
    ELSE LET i == PickIndex(seed, m)
             temp == ArrayGet(shuffled, m - 1)
         IN  ShuffleLoop(ArraySet(ArraySet(shuffled, m - 1, ArrayGet(shuffled, i)),
                                  i, temp),
                         m - 1, seed, Append(swaps, <<m - 1, i>>))

\* shuffledData
ShuffledData(sorted, seed) ==
    IF seed = NullObj \/ Len(sorted) = 0
    THEN [array |-> sorted, swaps |-> <<>>]
    ELSE ShuffleLoop(sorted, Len(sorted), seed, <<>>)

\* The items of the model and the lists useManifestoData loads.
ItemPool ==
    <<[id |-> "1", title |-> <<"T", "a", "x">>, description |-> <<"c", "u", "t">>,
       category |-> <<"E", "c", "o">>, priority |-> "High", timeline |-> "6 months"],
      [id |-> "2", title |-> <<"R", "o", "a", "d">>, description |-> <<"t", "A", "r">>,
       category |-> <<"W", "a", "y">>, priority |-> "Low", timeline |-> "5 years"],
      [id |-> "3", title |-> <<"V", "o", "t", "e">>, description |-> <<"a", "l", "l">>,
       category |-> <<"E", "c", "o">>, priority |-> "Medium", timeline |-> "soon"],
      [id |-> "4", title |-> <<"L", "a", "w">>, description |-> <<"n", "e", "w">>,
       category |-> <<"T", "a", "x">>, priority |-> "High", timeline |-> "2 years"]>>
DataLists == {SubSeq(ItemPool, 1, n) : n \in 1..MaxItems}
VoteLists ==
    {<<[manifesto_id |-> "2", vote_type |-> "like"],
       [manifesto_id |-> "1", vote_type |-> "dislike"],
       [manifesto_id |-> "2", vote_type |-> "like"]>>}
\* Math.random() as a fraction num / den of [0, 1), with num * 1000000 below
\* 2^31.
Seeds ==
    {[num |-> 0, den |-> 1], [num |-> 1, den |-> 3], [num |-> 7, den |-> 8],
     [num |-> 2146, den |-> 2147]}
Queries == {<<"t", "a">>, <<"E", "C", "O">>, <<"z">>}
Categories == {<<"E", "c", "o">>, <<"W", "a", "y">>}
Priorities == {"High", "Low"}
TimelineRanges == {<<6, 60>>, <<12, 24>>, <<6, 6>>}

DefaultFilters ==
    [searchQuery |-> <<>>, selectedCategories |-> <<>>, selectedPriorities |-> <<>>,
     timelineRange |-> <<6, 60>>, showAdvancedFilters |-> FALSE]

\* hasActiveFilters
hasActiveFilters ==
    \/ filters.searchQuery # <<>>
    \/ Len(filters.selectedCategories) > 0
    \/ Len(filters.selectedPriorities) > 0
    \/ filters.timelineRange[1] # 6
    \/ filters.timelineRange[2] # 60

ManifestoInit ==
    /\ manifestoData = <<>>
    /\ votesDataRaw = <<>>
    /\ filters = DefaultFilters
    /\ randomSeed = NullObj
    /\ displayData = <<>>
    /\ shuffleSwaps = <<>>

\* The render that follows a change of state: displayData is shuffledData of
\* sortedData of filteredData.
Render ==
    \E filtered \in {FilteredData(manifestoData', filters')} :
    \E sorted \in {SortedData(filtered, votesDataRaw')} :
    \E out \in {ShuffledData(sorted, randomSeed')} :
        /\ displayData' = out.array
        /\ shuffleSwaps' = out.swaps

\* useManifestoData delivers the items; the effect draws the first seed.
ManifestoLoaded(data, seed) ==
    /\ manifestoData = <<>>
    /\ manifestoData' = data
    /\ randomSeed' = IF Len(data) > 0 /\ randomSeed = NullObj THEN seed ELSE randomSeed
    /\ UNCHANGED <<votesDataRaw, filters>>
    /\ Render
    /\ UNCHANGED outsideManifesto

\* useVotes delivers the votes.
VotesLoaded(votes) ==
    /\ votesDataRaw = <<>>
    /\ votesDataRaw' = votes
    /\ UNCHANGED <<manifestoData, filters, randomSeed>>
    /\ Render
    /\ UNCHANGED outsideManifesto

\* A handler that replaces the filters.
SetFilters(f) ==
    /\ manifestoData # <<>>
    /\ filters' = f
    /\ UNCHANGED <<manifestoData, votesDataRaw, randomSeed>>
    /\ Render
    /\ UNCHANGED outsideManifesto

handleSearchChange(value) ==
    /\ value # filters.searchQuery
    /\ SetFilters([filters EXCEPT !.searchQuery = value])

handleClearSearch ==
    /\ filters.searchQuery # <<>>
    /\ SetFilters([filters EXCEPT !.searchQuery = <<>>])

toggleAdvancedFilters ==
    /\ manifestoData # <<>>
    /\ SetFilters([filters EXCEPT !.showAdvancedFilters = ~filters.showAdvancedFilters])

\* The checkbox of a category: checked is the opposite of what it shows.
handleCategoryChange(category, checked) ==
    /\ filters.showAdvancedFilters
    /\ checked = ~ArrayIncludes(filters.selectedCategories, category)
    /\ SetFilters([filters EXCEPT !.selectedCategories =
                      IF checked THEN Append(filters.selectedCategories, category)
                      ELSE LET Other(c) == c # category
                           IN  SelectSeq(filters.selectedCategories, Other)])

handlePriorityChange(priority, checked) ==
    /\ filters.showAdvancedFilters
    /\ checked = ~ArrayIncludes(filters.selectedPriorities, priority)
    /\ SetFilters([filters EXCEPT !.selectedPriorities =
                      IF checked THEN Append(filters.selectedPriorities, priority)
                      ELSE LET Other(q) == q # priority
                           IN  SelectSeq(filters.selectedPriorities, Other)])

handleTimelineChange(value) ==
    /\ filters.showAdvancedFilters
    /\ value # filters.timelineRange
    /\ SetFilters([filters EXCEPT !.timelineRange = value])

\* The two buttons of clearFilters: shown with active filters, and under an
\* empty list.
clearFilters ==
    /\ hasActiveFilters \/ Len(displayData) = 0
    /\ SetFilters(DefaultFilters)

\* The shuffle button: a new seed.
shuffleData(seed) ==
    /\ manifestoData # <<>>
    /\ seed # randomSeed
    /\ randomSeed' = seed
    /\ UNCHANGED <<manifestoData, votesDataRaw, filters>>
    /\ Render
    /\ UNCHANGED outsideManifesto

(***************************************************************************)
(* lib/i18n.ts and components/i18n-provider.tsx.                           *)
(***************************************************************************)
MaxCalls == 3
MaxProviders == 2

Languages == {"en", "np"}

\* loadTranslations without the test of loadingPromise.
loadTranslations_NoPromiseTest(loaded, promise) ==
    IF loaded THEN "loaded" ELSE "started"

\* What a call of loadTranslations does: it returns at once, returns the
\* promise of the load under way or finished, or starts the load.
loadTranslations(loaded, promise) ==
    IF loaded THEN "loaded"
    ELSE IF promise # "null" THEN "shared"
    ELSE "started"

isTranslationsLoaded == translationsLoaded

\* The .then callback of the provider's effect, without the test of mounted.
ThenCallback_AlwaysSets(provider) == [provider EXCEPT !.isReady = TRUE]

\* The .then callback of the provider's effect.
ThenCallback(provider) ==
    IF provider.mounted THEN [provider EXCEPT !.isReady = TRUE] ELSE provider

I18nInit ==
    /\ moduleState = "unloaded"
    /\ translationsLoaded = FALSE
    /\ loadingPromise = "null"
    /\ localeFetch = [lng \in Languages |-> "idle"]
    /\ fetchPairs = 0
    /\ bundles = {}
    /\ calls = <<>>
    /\ providers = <<>>

\* A call of loadTranslations by a caller: the module itself, the provider
\* numbered p, or loadCommonTranslations.
CallLoadTranslations(by, p) ==
    \E got \in {loadTranslations(translationsLoaded, loadingPromise)} :
        /\ calls' = Append(calls, [by |-> by, provider |-> p, got |-> got,
                                   sawLoaded |-> translationsLoaded,
                                   sawPromise |-> loadingPromise,
                                   stage |-> "waiting"])
        /\ IF got = "started"
           THEN /\ loadingPromise' = "pending"
                /\ localeFetch' = [lng \in Languages |-> "pending"]
                /\ fetchPairs' = fetchPairs + 1
           ELSE UNCHANGED <<loadingPromise, localeFetch, fetchPairs>>

\* The module is evaluated: on the client it calls loadTranslations.
ModuleLoad(window) ==
    /\ moduleState = "unloaded"
    /\ moduleState' = (IF window THEN "client" ELSE "server")
    /\ IF window
       THEN CallLoadTranslations("module", 0)
       ELSE UNCHANGED <<loadingPromise, localeFetch, fetchPairs, calls>>
    /\ UNCHANGED <<translationsLoaded, bundles, providers, outsideI18n>>

\* loadCommonTranslations(language) awaits loadTranslations().
loadCommonTranslations ==
    /\ moduleState # "unloaded"
    /\ Len(calls) < MaxCalls
    /\ CallLoadTranslations("common", 0)
    /\ UNCHANGED <<moduleState, translationsLoaded, bundles, providers, outsideI18n>>

\* An I18nProvider is mounted in the browser: useState's initialiser, the
\* first render and the effect, which calls loadTranslations.
I18nProvider ==
    /\ moduleState = "client"
    /\ Len(providers) < MaxProviders
    /\ Len(calls) < MaxCalls
    /\ providers' = Append(providers, [mounted |-> TRUE,
                                       isReady |-> isTranslationsLoaded])
    /\ CallLoadTranslations("provider", Len(providers) + 1)
    /\ UNCHANGED <<moduleState, translationsLoaded, bundles, outsideI18n>>

\* The cleanup of the provider's effect.
Unmount(p) ==
    /\ p \in DOMAIN providers
    /\ providers[p].mounted
    /\ providers' = [providers EXCEPT ![p].mounted = FALSE]
    /\ UNCHANGED <<moduleState, translationsLoaded, loadingPromise, localeFetch,
                   fetchPairs, bundles, calls, outsideI18n>>

\* fetch(...).then(r => r.json()) of one language settles.
FetchSettles(lng, ok) ==
    /\ localeFetch[lng] = "pending"
    /\ localeFetch' = [localeFetch EXCEPT ![lng] = IF ok THEN "ok" ELSE "failed"]
    /\ UNCHANGED <<moduleState, translationsLoaded, loadingPromise, fetchPairs,
                   bundles, calls, providers, outsideI18n>>

\* Promise.all has settled and the body of loadingPromise goes on: it adds
\* the two bundles and sets translationsLoaded, or logs the failure.
LoadSettles ==
    /\ loadingPromise = "pending"
    /\ \/ \A lng \in Languages : localeFetch[lng] = "ok"
       \/ \E lng \in Languages : localeFetch[lng] = "failed"
    /\ IF \A lng \in Languages : localeFetch[lng] = "ok"
       THEN /\ bundles' = Languages
            /\ translationsLoaded' = TRUE
       ELSE UNCHANGED <<bundles, translationsLoaded>>
    /\ loadingPromise' = "fulfilled"
    /\ UNCHANGED <<moduleState, localeFetch, fetchPairs, calls, providers,
                   outsideI18n>>

\* The promise a call returned is fulfilled and the caller goes on; the
\* provider's .then callback sets the ready state.
Resume(c) ==
    /\ c \in DOMAIN calls
    /\ calls[c].stage = "waiting"
    /\ calls[c].got = "loaded" \/ loadingPromise = "fulfilled"
    /\ calls' = [calls EXCEPT ![c].stage = "returned"]
    /\ IF calls[c].by = "provider"
       THEN providers' = [providers EXCEPT
                             ![calls[c].provider] = ThenCallback(providers[calls[c].provider])]
       ELSE UNCHANGED providers
    /\ UNCHANGED <<moduleState, translationsLoaded, loadingPromise, localeFetch,
                   fetchPairs, bundles, outsideI18n>>

(***************************************************************************)
(* hooks/use-cached-data.ts: useSuggestionMutation and useOfflineSync.     *)
(* CacheManager (lib/cache/cache-manager) keeps the offline actions as a   *)
(* list: saveOfflineAction appends, getOfflineActions reads it and         *)
(* clearOfflineActions empties it.                                         *)
(***************************************************************************)
MaxSuggestions == 2

saveOfflineAction(queue, action) == Append(queue, action)
getOfflineActions(queue) == queue
clearOfflineActions(queue) == <<>>

\* onSuccess of useOfflineSync: what it leaves of the queue.
SyncOnSuccess(queue, run) == clearOfflineActions(queue)

QueueInit ==
    /\ onLine = TRUE
    /\ offlineActions = <<>>
    /\ syncRun = NullObj
    /\ inserted = {}
    /\ submitted = 0
    /\ savedOffline = {}

\* The browser goes offline or comes back online.
SetOnLine(value) ==
    /\ onLine # value
    /\ onLine' = value
    /\ UNCHANGED <<offlineActions, syncRun, inserted, submitted, savedOffline,
                   outsideQueue>>

\* useSuggestionMutation's mutationFn: offline it saves the suggestion for a
\* later sync, online it inserts it, and throws when the insert reports an
\* error.
SubmitSuggestion(insertOk) ==
    /\ submitted < MaxSuggestions
    /\ submitted' = submitted + 1
    /\ IF ~onLine
       THEN /\ offlineActions' =
                   saveOfflineAction(offlineActions,
                                     [type |-> "suggestion", data |-> submitted + 1])
            /\ savedOffline' = savedOffline \cup {submitted + 1}
            /\ UNCHANGED inserted
       ELSE /\ inserted' = (IF insertOk THEN inserted \cup {submitted + 1} ELSE inserted)
            /\ UNCHANGED <<offlineActions, savedOffline>>
    /\ UNCHANGED <<onLine, syncRun, outsideQueue>>

\* useOfflineSync's mutationFn starts: it reads the actions; with none it
\* returns at once and onSuccess runs.
SyncStart ==
    /\ syncRun = NullObj
    /\ \E actions \in {getOfflineActions(offlineActions)} :
          IF Len(actions) = 0
          THEN /\ offlineActions' = SyncOnSuccess(offlineActions,
                                        [actions |-> <<>>, results |-> <<>>])
               /\ UNCHANGED syncRun
          ELSE /\ syncRun' = [actions |-> actions, results |-> <<>>]
               /\ UNCHANGED offlineActions
    /\ UNCHANGED <<onLine, inserted, submitted, savedOffline, outsideQueue>>

\* The loop handles its next action: the insert stores the row, reports an
\* error in its answer, or throws. Only a thrown error is caught and pushed
\* as a failure; the answer's error is not read.
SyncInsert(outcome) ==
    /\ syncRun # NullObj
    /\ Len(syncRun.results) < Len(syncRun.actions)
    /\ LET action == syncRun.actions[Len(syncRun.results) + 1]
       IN  /\ inserted' = (IF outcome = "stored" THEN inserted \cup {action.data}
                           ELSE inserted)
           /\ syncRun' = [syncRun EXCEPT !.results =
                             Append(@, [success |-> outcome # "throws",
                                        stored |-> outcome = "stored"])]
    /\ UNCHANGED <<onLine, offlineActions, submitted, savedOffline, outsideQueue>>

\* The loop is over, mutationFn returns its results and onSuccess runs.
SyncSuccess ==
    /\ syncRun # NullObj
    /\ Len(syncRun.results) = Len(syncRun.actions)
    /\ offlineActions' = SyncOnSuccess(offlineActions, syncRun)
    /\ syncRun' = NullObj
    /\ UNCHANGED <<onLine, inserted, submitted, savedOffline, outsideQueue>>

(***************************************************************************)
(* components/testimonial-carousel.tsx.  Lengths are in pixels, the        *)
(* scroll box of h-[500px] scaled down to ClientHeight.                    *)
(***************************************************************************)
MaxFrames == 5
ClientHeight == 2
ScrollHeights == {3, 5, 6}

\* The cleanup of the scroll effect cancelling nothing.
EffectCleanup_NoCancel(scheduled, ref) == scheduled

\* The cleanup of the scroll effect: the frames left scheduled.
EffectCleanup(scheduled, ref) ==
    IF ref # 0 THEN scheduled \ {ref} ELSE scheduled

\* scroll(): the new scrollTop. The browser keeps scrollTop within
\* scrollHeight - clientHeight.
scroll(top, height) ==
    LET moved == Min(top + 1, height - ClientHeight)
    IN  IF 2 * moved >= height THEN 0 ELSE moved

\* The component is mounted: no testimonials yet, the scroll effect has run
\* and returned early, fetchTestimonials awaits its response.
CarouselInit ==
    /\ carouselFetch = "pending"
    /\ carouselCount = 0
    /\ isPaused = FALSE
    /\ isHovered = FALSE
    /\ scrollTop = 0
    /\ scrollHeight = 0
    /\ animationRef = 0
    /\ frames = {}
    /\ nextFrame = 1
    /\ effect = [isPaused |-> FALSE, isHovered |-> FALSE, count |-> 0,
                 cleanup |-> FALSE]

\* The scroll effect runs again for the state (paused, hovered, count): the
\* cleanup the last run returned, then the effect's body.
RunEffectWith(paused, hovered, count) ==
    LET kept == IF effect.cleanup THEN EffectCleanup(frames, animationRef)
                ELSE frames
    IN  IF paused \/ hovered \/ count = 0
        THEN /\ frames' = kept
             /\ effect' = [isPaused |-> paused, isHovered |-> hovered,
                           count |-> count, cleanup |-> FALSE]
             /\ UNCHANGED <<animationRef, nextFrame>>
        ELSE /\ frames' = kept \cup {nextFrame}
             /\ animationRef' = nextFrame
             /\ nextFrame' = nextFrame + 1
             /\ effect' = [isPaused |-> paused, isHovered |-> hovered,
                           count |-> count, cleanup |-> TRUE]

\* fetchTestimonials gets its response: count testimonials, doubled in the
\* state, laid out with the given scroll height; none on a failure.
FetchTestimonials(count, height) ==
    /\ carouselFetch = "pending"
    /\ carouselFetch' = "done"
    /\ carouselCount' = 2 * count
    /\ scrollHeight' = (IF count > 0 THEN height ELSE 0)
    /\ UNCHANGED <<isPaused, isHovered, scrollTop, animationRef, frames, nextFrame,
                   effect, outsideCarousel>>

\* The click on the pause button: setIsPaused(!isPaused). React renders a
\* click's update and runs its effects before it returns to the browser.
TogglePause ==
    /\ carouselCount > 0
    /\ nextFrame <= MaxFrames
    /\ isPaused' = ~isPaused
    /\ RunEffectWith(~isPaused, isHovered, carouselCount)
    /\ UNCHANGED <<carouselFetch, carouselCount, isHovered, scrollTop, scrollHeight,
                   outsideCarousel>>

\* onMouseEnter and onMouseLeave: setIsHovered(value).
SetIsHovered(value) ==
    /\ carouselCount > 0
    /\ isHovered # value
    /\ isHovered' = value
    /\ UNCHANGED <<carouselFetch, carouselCount, isPaused, scrollTop, scrollHeight,
                   animationRef, frames, nextFrame, effect, outsideCarousel>>

\* React runs the scroll effect after a render whose dependencies differ
\* from those of the effect's last run.
RunEffect ==
    /\ <<isPaused, isHovered, carouselCount>> #
           <<effect.isPaused, effect.isHovered, effect.count>>
    /\ nextFrame <= MaxFrames
    /\ RunEffectWith(isPaused, isHovered, carouselCount)
    /\ UNCHANGED <<carouselFetch, carouselCount, isPaused, isHovered, scrollTop,
                   scrollHeight, outsideCarousel>>

\* The browser runs the animation frame callback id: scroll() moves the
\* box and requests the next frame.
Frame(id) ==
    /\ id \in frames
    /\ nextFrame <= MaxFrames
    /\ scrollTop' = scroll(scrollTop, scrollHeight)
    /\ frames' = (frames \ {id}) \cup {nextFrame}
    /\ animationRef' = nextFrame
    /\ nextFrame' = nextFrame + 1
    /\ UNCHANGED <<carouselFetch, carouselCount, isPaused, isHovered, scrollHeight,
                   effect, outsideCarousel>>

\* No module of the browser's side has been loaded.
ClientIdle == I18nInit /\ QueueInit /\ CarouselInit

(***************************************************************************)
(* The specifications.                                                     *)
(***************************************************************************)
\* No SuggestionList is mounted.
ListIdle == ListInit(0) /\ session = NullObj

\* No request has reached POST /api/suggestions.
PostIdle == PostInit /\ systemSettings = NullObj

\* The deployment is configured, its users have no profiles and no request
\* has reached the middleware.
SiteIdle ==
    /\ processEnv = RealEnvironment
    /\ profiles = [id \in UserIds |-> NoRole]
    /\ GateIdle
    /\ TestimonialsInit
    /\ ManifestoInit
    /\ ClientIdle

\* The id utility, called with every kind of id while the agendas table is
\* being seeded.
InitIds == IdInit /\ ListIdle /\ PostIdle /\ SiteIdle
SpecIds == InitIds /\ [][IdNext]_vars

\* A SuggestionList of one suggestion, voted on by the visitor.
InitVote == IdInit /\ ListInit(1) /\ PostIdle /\ SiteIdle
NextVote ==
    \/ checkUser
    \/ \E ok \in BOOLEAN : fetchSuggestions(ok)
    \/ \E ok \in BOOLEAN : fetchAllVoteData(ok)
    \/ fetchAllVoteDataLagging
    \/ \E i \in DOMAIN SuggestionIds, type \in VoteTypes : handleVote(SuggestionIds[i], type)
    \/ \E rid \in 1..MaxClicks, ok \in BOOLEAN : ServerVote(rid, ok)
    \/ \E rid \in 1..MaxClicks : VoteAnswered(rid)
    \/ \E rid \in 1..MaxClicks, reached \in BOOLEAN : VoteFetchFails(rid, reached)
    \/ ClearError
SpecVote == InitVote /\ [][NextVote]_vars

\* A SuggestionList of three suggestions, sorted and refreshed by a visitor
\* who is not signed in.
SortFeedSize == 3
InitSort == IdInit /\ ListInit(SortFeedSize) /\ session = NullObj /\ PostIdle /\ SiteIdle
NextSort ==
    \/ \E ok \in BOOLEAN : fetchSuggestions(ok)
    \/ \E ok \in BOOLEAN : fetchAllVoteData(ok)
    \/ TryAgain
    \/ Refresh
    \/ \E by \in {"popularity", "newest", "oldest"} : setSortBy(by)
SpecSort == InitSort /\ [][NextSort]_vars

\* POST /api/suggestions, called with every kind of request at one instant;
\* the agendas table holds agenda 7.
InitPost ==
    /\ agendas = {[sequence_id |-> 7, id |-> AgendaRowId(7)]}
    /\ idCall = NullObj
    /\ idPrev = NullObj
    /\ ListIdle
    /\ PostInit
    /\ SiteIdle
NextPost ==
    \/ \E r \in PostInputs : POST(r)
    \/ \E ok \in BOOLEAN : SendEmail(ok)
SpecPost == InitPost /\ [][NextPost]_vars

\* POST /api/suggestions, called from two addresses while time passes.
InitRate == InitPost
NextRate ==
    \/ \E r \in RateInputs : POST(r)
    \/ \E ok \in BOOLEAN : SendEmail(ok)
    \/ Tick
SpecRate == InitRate /\ [][NextRate]_vars

\* The public feed: suggestions are posted for two agendas, moderated and
\* read while the auto_approve_suggestions setting changes.
FeedInputs ==
    {ValidPost,
     [ValidPost EXCEPT !.agenda_id = <<"1", "2">>],
     [ValidPost EXCEPT !.settingsError = TRUE],
     [ValidPost EXCEPT !.insertError = TRUE]}
FeedGets ==
    {ValidGet,
     [ValidGet EXCEPT !.agenda_id = ManifestoPrefix \o <<"7">>],
     [ValidGet EXCEPT !.agenda_id = <<"1", "2">>],
     [ValidGet EXCEPT !.agenda_id = <<"a", "b", "c">>],
     [ValidGet EXCEPT !.queryError = TRUE]}
InitFeed == InitPost
NextFeed ==
    \/ \E r \in FeedInputs : POST(r)
    \/ \E r \in FeedGets : GET(r)
    \/ \E row \in SettingsRows : SetAutoApprove(row)
    \/ \E i \in 1..MaxRows, st \in ModerationStatuses : ModerateSuggestion(i, st)
SpecFeed == InitFeed /\ [][NextFeed]_vars

\* The middleware, in every environment, while roles change.
InitGate ==
    /\ IdInit
    /\ ListIdle
    /\ PostIdle
    /\ processEnv \in {e \in Environments : e.SUPABASE_SERVICE_ROLE_KEY = RealKey}
    /\ profiles = [id \in UserIds |-> NoRole]
    /\ GateIdle
    /\ TestimonialsInit
    /\ ManifestoInit
    /\ ClientIdle
NextGate ==
    \/ \E req \in GateInputs : Middleware(req)
    \/ \E id \in UserIds, role \in Roles \cup {NoRole} : SetRole(id, role)
SpecGate == InitGate /\ [][NextGate]_vars

\* GET and POST /api/suggestions with well-formed and malformed ids, with and
\* without a failing agenda lookup.
RouteInputs ==
    {ValidPost,
     [ValidPost EXCEPT !.dbError = "08006"],
     [ValidPost EXCEPT !.agenda_id = <<"1", "2">>],
     [ValidPost EXCEPT !.agenda_id = ManifestoPrefix \o <<"7">>, !.dbError = "08006"],
     [ValidPost EXCEPT !.agenda_id = UuidOf("e"), !.dbError = "08006"],
     [ValidPost EXCEPT !.agenda_id = <<"a", "b", "c">>],
     [ValidPost EXCEPT !.agenda_id = ManifestoPrefix \o <<"7", "x">>],
     [ValidPost EXCEPT !.agenda_id = <<"-", "7">>],
     [ValidPost EXCEPT !.agenda_id = <<"a", "b", "c">>, !.auth = "none"]}
InitRoutes == InitPost
NextRoutes ==
    \/ \E r \in RouteInputs : POST(r)
    \/ \E r \in GetInputs : GET(r)
SpecRoutes == InitRoutes /\ [][NextRoutes]_vars

\* ManifestoList: the data and the votes arrive, the visitor filters and
\* shuffles.
InitManifesto == IdInit /\ ListIdle /\ PostIdle /\ SiteIdle
NextManifesto ==
    \/ \E data \in DataLists, seed \in Seeds : ManifestoLoaded(data, seed)
    \/ \E votes \in VoteLists : VotesLoaded(votes)
    \/ \E value \in Queries : handleSearchChange(value)
    \/ handleClearSearch
    \/ toggleAdvancedFilters
    \/ \E category \in Categories, checked \in BOOLEAN :
          handleCategoryChange(category, checked)
    \/ \E priority \in Priorities, checked \in BOOLEAN :
          handlePriorityChange(priority, checked)
    \/ \E value \in TimelineRanges : handleTimelineChange(value)
    \/ clearFilters
    \/ \E seed \in Seeds : shuffleData(seed)
SpecManifesto == InitManifesto /\ [][NextManifesto]_vars

\* /api/testimonials, in every environment, while roles change.
InitTestimonials ==
    /\ IdInit
    /\ ListIdle
    /\ PostIdle
    /\ EnvInit
    /\ GateIdle
    /\ TestimonialsInit
    /\ ManifestoInit
    /\ ClientIdle
NextTestimonials ==
    \/ \E req \in TestimonialGetInputs : TestimonialsGET(req)
    \/ \E req \in TestimonialPostInputs : TestimonialsPOST(req)
    \/ \E id \in UserIds, role \in Roles \cup {NoRole} : SetRole(id, role)
SpecTestimonials == InitTestimonials /\ [][NextTestimonials]_vars


\* lib/i18n.ts loaded on the client or the server, providers mounted and
\* unmounted, other callers of loadTranslations, fetches that succeed or fail.
InitI18n == IdInit /\ ListIdle /\ PostIdle /\ SiteIdle
NextI18n ==
    \/ \E window \in BOOLEAN : ModuleLoad(window)
    \/ loadCommonTranslations
    \/ I18nProvider
    \/ \E p \in 1..MaxProviders : Unmount(p)
    \/ \E lng \in Languages, ok \in BOOLEAN : FetchSettles(lng, ok)
    \/ LoadSettles
    \/ \E c \in 1..MaxCalls : Resume(c)
SpecI18n == InitI18n /\ [][NextI18n]_vars

\* The same, where every fetch settles and every continuation of a settled
\* promise runs: the event loop runs the microtasks it has queued.
SpecI18nLive ==
    /\ SpecI18n
    /\ \A lng \in Languages : WF_vars(\E ok \in BOOLEAN : FetchSettles(lng, ok))
    /\ WF_vars(LoadSettles)
    /\ \A c \in 1..MaxCalls : WF_vars(Resume(c))


\* Suggestions submitted online and offline, and syncs of the offline queue
\* whose inserts succeed, report an error or throw.
InitQueue == IdInit /\ ListIdle /\ PostIdle /\ SiteIdle
NextQueue ==
    \/ \E value \in BOOLEAN : SetOnLine(value)
    \/ \E insertOk \in BOOLEAN : SubmitSuggestion(insertOk)
    \/ SyncStart
    \/ \E outcome \in {"stored", "error", "throws"} : SyncInsert(outcome)
    \/ SyncSuccess
SpecQueue == InitQueue /\ [][NextQueue]_vars


\* A TestimonialCarousel whose testimonials arrive, paused, played and
\* hovered while the browser runs its animation frames.
InitCarousel == IdInit /\ ListIdle /\ PostIdle /\ SiteIdle
NextCarousel ==
    \/ \E count \in 0..1, height \in ScrollHeights : FetchTestimonials(count, height)
    \/ TogglePause
    \/ \E value \in BOOLEAN : SetIsHovered(value)
    \/ RunEffect
    \/ \E id \in 1..MaxFrames : Frame(id)
SpecCarousel == InitCarousel /\ [][NextCarousel]_vars

(***************************************************************************)
(* Properties of SuggestionList's voting, checked under SpecVote.          *)
(***************************************************************************)
NoVote(v) == v \in {"null", Undefined}

\* C6: in handleVote's optimistic update, from an item with no vote and
\* counts (L, D): like shows the vote like and (L + 1, D); a second like shows
\* no vote and (L, D) again; a dislike after the like shows the vote dislike
\* with one like fewer and one dislike more than after the like. The item
\* shows one vote of the visitor at most.
C6_OptimisticToggle ==
    clicks # <<>> =>
        LET first == clicks[1]
            last == clicks[Len(clicks)]
            shown == [vote |-> VoteOf(userVotes, last.id),
                      likes |-> LikesOf(voteCounts, last.id),
                      dislikes |-> DislikesOf(voteCounts, last.id)]
            L == first.currentCounts.likes
            D == first.currentCounts.dislikes
        IN  /\ shown.vote \in {"like", "dislike", "null"}
            /\ (NoVote(first.currentVote) /\ first.type = "like") =>
                  /\ Len(clicks) = 1 =>
                        shown = [vote |-> "like", likes |-> L + 1, dislikes |-> D]
                  /\ (Len(clicks) = 2 /\ last.type = "like") =>
                        shown = [vote |-> "null", likes |-> L, dislikes |-> D]
                  /\ (Len(clicks) = 2 /\ last.type = "dislike") =>
                        shown = [vote |-> "dislike",
                                 likes |-> first.new.counts.likes - 1,
                                 dislikes |-> first.new.counts.dislikes + 1]

\* The visitor liked an item that had likes and no vote of theirs, and liked
\* it again: the item is back at no vote and its counts.
C6_Witness ==
    /\ Len(clicks) = 2
    /\ NoVote(clicks[1].currentVote)
    /\ clicks[1].currentCounts.likes > 0
    /\ clicks[1].type = "like" /\ clicks[2].type = "like"
    /\ VoteOf(userVotes, clicks[2].id) = "null"

\* The vote and counts the item showed before the click of request r.
ShownBefore(r) ==
    /\ VoteOf(userVotes, r.id) = r.currentVote
    /\ LikesOf(voteCounts, r.id) = r.currentCounts.likes
    /\ DislikesOf(voteCounts, r.id) = r.currentCounts.dislikes

\* C7: when a vote request fails, with a non-OK status or with a rejected
\* fetch, the item shows again the vote and the counts it showed before the
\* click that issued the request.
C7_FailureRollsBack ==
    lastEvent.kind \in {"nonok", "neterr"} => ShownBefore(requests[lastEvent.rid])

\* The part of C7 the code keeps: a non-OK answer rolls the item back.
C7_NonOkRollsBack ==
    lastEvent.kind = "nonok" => ShownBefore(requests[lastEvent.rid])

(***************************************************************************)
(* Properties of SuggestionList's sorting, checked under SpecSort.         *)
(***************************************************************************)
NetScore(id) == LikesOf(voteCounts, id) - DislikesOf(voteCounts, id)
TotalEngagement(id) == LikesOf(voteCounts, id) + DislikesOf(voteCounts, id)

\* C10: with sortBy = popularity, sortedSuggestions holds each fetched
\* suggestion once, with its counts, in the order of descending net score
\* (likes - dislikes) and, at equal net score, of descending total engagement
\* (likes + dislikes); A(5, 1) and B(3, 0) come out as [A, B].
C10_PopularityOrder ==
    /\ sortBy = "popularity" =>
          LET out == sortedSuggestions
          IN  /\ Len(out) = Len(suggestions)
              /\ \A i \in DOMAIN suggestions :
                    Cardinality({j \in DOMAIN out : out[j].id = suggestions[i].id}) = 1
              /\ \A j \in DOMAIN out :
                    /\ out[j].likes = LikesOf(voteCounts, out[j].id)
                    /\ out[j].dislikes = DislikesOf(voteCounts, out[j].id)
              /\ \A i, j \in DOMAIN out :
                    i < j =>
                        \/ NetScore(out[i].id) > NetScore(out[j].id)
                        \/ /\ NetScore(out[i].id) = NetScore(out[j].id)
                           /\ TotalEngagement(out[i].id) >= TotalEngagement(out[j].id)
    /\ LET A == [id |-> "A", created_at |-> 1, likes |-> 5, dislikes |-> 1,
                 netScore |-> 4, totalEngagement |-> 6]
           B == [id |-> "B", created_at |-> 2, likes |-> 3, dislikes |-> 0,
                 netScore |-> 3, totalEngagement |-> 3]
       IN  /\ ArraySort(<<A, B>>, "popularity") = <<A, B>>
           /\ ArraySort(<<B, A>>, "popularity") = <<A, B>>

\* Three suggestions are on screen by popularity; two of them have the same
\* net score and different engagement, and sorting moved the newest
\* suggestion off the first place.
C10_Witness ==
    /\ Rendered
    /\ sortBy = "popularity"
    /\ Len(suggestions) = 3
    /\ \E i, j \in DOMAIN suggestions :
          /\ NetScore(suggestions[i].id) = NetScore(suggestions[j].id)
          /\ TotalEngagement(suggestions[i].id) < TotalEngagement(suggestions[j].id)
    /\ sortedSuggestions[1].id # suggestions[1].id

(***************************************************************************)
(* Properties of POST /api/suggestions, checked under SpecPost (C8) and     *)
(* under SpecRate (C9).                                                    *)
(***************************************************************************)
\* A string that is empty or holds white space only.
Blank(v) == v \notin {Absent, Null} /\ \A i \in DOMAIN v : v[i] \in WhiteSpace

\* The request went past the origin check, the rate limiter, the session
\* check and the parsing of its body.
ReachedValidation(post) ==
    /\ isAllowedOrigin(post.request)
    /\ post.stage # "rate"
    /\ post.request.auth = "user"
    /\ post.request.json

PassedInWindow(ip) == Len(Within(passed[ip], RateLimitWindowMs))

\* C9: of the requests of one address that reach the rate limiter, no more
\* than 5 in ten minutes go on to the handler's next step: the 6th is
\* answered with the limiter's response and inserts nothing, and a request is
\* answered so only when 5 of the address went on in the last ten minutes.
C9_SixthPostRejected ==
    /\ \A ip \in Ips : PassedInWindow(ip) <= 5
    /\ lastPost # NullObj =>
          /\ (isAllowedOrigin(lastPost.request)
                /\ PassedInWindow(lastPost.request.ip)
                     - (IF lastPost.stage = "rate" THEN 0 ELSE 1) >= 5) =>
                /\ lastPost.stage = "rate"
                /\ lastPost.status = 429
                /\ Len(suggestionsTable) = lastPost.rowsBefore
          /\ (lastPost.stage = "rate" \/ lastPost.status = 429) =>
                PassedInWindow(lastPost.request.ip) >= 5

\* A valid request of a signed-in visitor is rejected by the rate limiter:
\* it is the 6th of its address in ten minutes, the 5 before it were spread
\* over two instants, and the other address has got a request through.
C9_Witness ==
    /\ lastPost # NullObj
    /\ lastPost.request = ValidPost
    /\ lastPost.status = 429
    /\ PassedInWindow(ClientIp) = 5
    /\ \E i, j \in DOMAIN passed[ClientIp] : passed[ClientIp][i] # passed[ClientIp][j]
    /\ passed[OtherIp] # <<>>
    /\ Len(suggestionsTable) = lastPost.rowsBefore

(***************************************************************************)
(* Properties of the public feed, checked under SpecFeed.                  *)
(***************************************************************************)
\* The status a suggestion gets when the setting row read at its creation is
\* settings (NullObj when the row is missing or could not be read).
StatusUnder(settings) ==
    IF settings # NullObj /\ settings.auto_approve_suggestions = TRUE
    THEN "approved"
    ELSE "pending"

\* A step that inserts a suggestion stores it as the setting of that moment
\* says, and a step that answers a GET lists approved suggestions only.
FeedStep ==
    /\ Len(suggestionsTable') > Len(suggestionsTable) =>
          /\ Len(suggestionsTable') = Len(suggestionsTable) + 1
          /\ suggestionsTable'[Len(suggestionsTable')].status =
                StatusUnder(IF lastPost'.request.settingsError THEN NullObj
                            ELSE systemSettings)
    /\ (lastGet' # lastGet /\ lastGet'.status = 200) =>
          \A k \in DOMAIN lastGet'.suggestions :
              LET item == lastGet'.suggestions[k]
              IN  /\ item.id \in DOMAIN suggestionsTable
                  /\ suggestionsTable[item.id].status = "approved"
                  /\ suggestionsTable[item.id].agenda_id = lastGet'.agenda_id

\* C11: POST /api/suggestions stores a suggestion as approved exactly when
\* auto_approve_suggestions is true when it is created, and as pending
\* otherwise (the setting false, missing or unreadable); GET /api/suggestions
\* returns approved suggestions only, so a pending one is not in the feed.
C11_ApprovedOnlyInFeed == [][FeedStep]_vars

\* The feed of agenda 7 was read while the table held an approved and a
\* pending suggestion for it: the answer lists one suggestion.
C11_Witness ==
    /\ lastGet # NullObj
    /\ lastGet.status = 200
    /\ Len(lastGet.suggestions) = 1
    /\ \E i, j \in DOMAIN suggestionsTable :
          /\ suggestionsTable[i].agenda_id = lastGet.agenda_id
          /\ suggestionsTable[j].agenda_id = lastGet.agenda_id
          /\ suggestionsTable[i].status = "approved"
          /\ suggestionsTable[j].status = "pending"
          /\ lastGet.suggestions[1].id = i

(***************************************************************************)
(* Properties of the middleware, checked under SpecGate.                   *)
(***************************************************************************)
\* What is claimed of a request to /api/admin: it goes on only for an
\* authenticated user whose profile says admin, it is answered 401 when
\* getUser fails or finds nobody, and 403 when the role is not admin.
AdminGate(gate) ==
    LET req == gate.request
        signedIn == req.session.auth = "user"
        isAdmin == /\ signedIn
                   /\ ~req.profileError
                   /\ profiles[req.session.id] = "admin"
    IN  StartsWith(req.pathname, ApiAdmin) =>
            /\ gate.returns = "next" => isAdmin
            /\ ~signedIn => gate.returns = "401"
            /\ (signedIn /\ ~isAdmin) => gate.returns = "403"

\* The middleware's own test of its configuration.
GateConfigured ==
    /\ \lnot Falsy(processEnv.NEXT_PUBLIC_SUPABASE_URL)
    /\ \lnot Falsy(processEnv.NEXT_PUBLIC_SUPABASE_ANON_KEY)

\* C12 as stated: every request to a path that starts with /api/admin goes
\* on only for an authenticated admin, and gets 401 or 403 otherwise.
C12_AdminGateAlways == lastGate # NullObj => AdminGate(lastGate)

\* C12, amended: when the database URL and the anon key are set, every
\* request to a path that starts with /api/admin goes on only for an
\* authenticated user whose profile role is admin; it is answered 401 on an
\* auth error or with no user, and 403 with any other role or no profile.
C12_AdminGateWhenConfigured ==
    (lastGate # NullObj /\ GateConfigured) => AdminGate(lastGate)

\* A moderator asked for /api/admin/users in a configured deployment and got
\* 403.
C12_Witness ==
    /\ lastGate # NullObj
    /\ GateConfigured
    /\ lastGate.request.pathname = ApiAdmin \o <<"/", "u", "s", "e", "r", "s">>
    /\ lastGate.request.session.auth = "user"
    /\ profiles[lastGate.request.session.id] = "moderator"
    /\ lastGate.returns = "403"

(***************************************************************************)
(* POST /api/testimonials: who may write.                                  *)
(***************************************************************************)
\* The requester of the latest testimonials request is an authenticated user:
\* the deployment has a real client and the session resolves to a user.
Authenticated == 
    /\ createClient.kind = "real"
    /\ lastTestimonial.request.session.auth = "user"

RoleOfRequester == profiles[lastTestimonial.request.session.id]

\* The handler neither read the body nor wrote to the table.
Untouched ==
    /\ ~lastTestimonial.out.readBody
    /\ lastTestimonial.out.row = NullObj
    /\ Len(testimonials) = lastTestimonial.rowsBefore
    /\ SubSeq(testimonials, 1, Len(SeedTestimonials)) = SeedTestimonials

\* C13: POST /api/testimonials inserts a row only for an authenticated user
\* whose profile role is admin or moderator; with no authenticated user it
\* answers 401 and with another or no role 403, both times without having
\* read the body or written to the table.
C13_OnlyAdminOrModeratorWrites ==
    (lastTestimonial # NullObj /\ lastTestimonial.op = "POST") =>
        /\ lastTestimonial.out.row # NullObj =>
              /\ Authenticated
              /\ RoleOfRequester \in {"admin", "moderator"}
              /\ testimonials[Len(testimonials)] = lastTestimonial.out.row
        /\ ~Authenticated =>
              /\ lastTestimonial.out.status = 401
              /\ Untouched
        /\ (Authenticated /\ RoleOfRequester \notin {"admin", "moderator"}) =>
              /\ lastTestimonial.out.status = 403
              /\ Untouched

\* A signed-in user of role user was refused, and nothing was read or written.
C13_Witness ==
    /\ lastTestimonial # NullObj
    /\ lastTestimonial.op = "POST"
    /\ Authenticated
    /\ RoleOfRequester = "user"
    /\ lastTestimonial.request.json
    /\ lastTestimonial.out.status = 403
    /\ Untouched

(***************************************************************************)
(* /api/testimonials: database errors.                                     *)
(***************************************************************************)
\* The database reported an error to the latest testimonials request.
DatabaseErrorReported ==
    /\ lastTestimonial # NullObj
    /\ lastTestimonial.out.stage \in {"query", "insert"}

\* C14: whenever the database reports an error to GET or POST
\* /api/testimonials, the route logs it, answers 500, and the message of the
\* response is not the database's own error text.
C14_DbErrorLoggedGeneric500 ==
    DatabaseErrorReported =>
        /\ lastTestimonial.out.logged
        /\ lastTestimonial.out.status = 500
        /\ lastTestimonial.out.error # DbMessage

\* What does hold: a database error is answered with status 500.
C14_DbErrorIs500 ==
    DatabaseErrorReported => lastTestimonial.out.status = 500

(***************************************************************************)
(* The mock client of an unconfigured deployment.                          *)
(***************************************************************************)
\* A value of the environment that is absent, empty or a placeholder.
AbsentOrPlaceholder(value) ==
    value \in {Absent, <<>>, PlaceholderUrl, PlaceholderKey}

AnonUnconfigured ==
    \/ AbsentOrPlaceholder(processEnv.NEXT_PUBLIC_SUPABASE_URL)
    \/ AbsentOrPlaceholder(processEnv.NEXT_PUBLIC_SUPABASE_ANON_KEY)

ServiceUnconfigured ==
    \/ AbsentOrPlaceholder(processEnv.NEXT_PUBLIC_SUPABASE_URL)
    \/ AbsentOrPlaceholder(processEnv.SUPABASE_SERVICE_ROLE_KEY)

\* The mock client knows no user and answers a query with no data, no error.
MockAnswersEmpty ==
    /\ createMockClient.kind = "mock"
    /\ ~createMockClient.cookies
    /\ \A sess \in Sessions :
          GetUserOf(createMockClient, sess) = [user |-> NullObj, error |-> NoError]
    /\ \A id \in UserIds, fails \in BOOLEAN :
          ProfileVia(createMockClient, id, fails) = NullObj

\* C18: with the URL or the relevant key absent or a placeholder,
\* createClient and createServiceClient return the mock client, reading no
\* cookies and building no real client; the mock knows no user and answers
\* with empty data and no error, so GET /api/testimonials answers 200 with
\* an empty list and POST answers 401, neither throwing.
C18_MockWhenUnconfigured ==
    /\ AnonUnconfigured => (createClient = createMockClient /\ MockAnswersEmpty)
    /\ ServiceUnconfigured => (createServiceClient = createMockClient /\ MockAnswersEmpty)
    /\ (lastTestimonial # NullObj /\ lastTestimonial.op = "GET" /\ ServiceUnconfigured) =>
          /\ lastTestimonial.out.client = "mock"
          /\ ~lastTestimonial.out.cookies
          /\ lastTestimonial.out.status = 200
          /\ lastTestimonial.out.data = <<>>
          /\ lastTestimonial.out.stage = "done"
    /\ (lastTestimonial # NullObj /\ lastTestimonial.op = "POST" /\ AnonUnconfigured) =>
          /\ lastTestimonial.out.client = "mock"
          /\ ~lastTestimonial.out.cookies
          /\ lastTestimonial.out.status = 401
          /\ lastTestimonial.out.stage = "auth"
          /\ Untouched

\* GET answered 200 with an empty list from a table that has active rows,
\* under a placeholder service role key.
C18_Witness ==
    /\ processEnv.NEXT_PUBLIC_SUPABASE_URL = RealUrl
    /\ processEnv.SUPABASE_SERVICE_ROLE_KEY = PlaceholderKey
    /\ lastTestimonial # NullObj
    /\ lastTestimonial.op = "GET"
    /\ lastTestimonial.out.status = 200
    /\ lastTestimonial.out.data = <<>>
    /\ \E i \in DOMAIN testimonials : testimonials[i].is_active

(***************************************************************************)
(* /api/suggestions: a failing agenda lookup and a malformed id.           *)
(***************************************************************************)
\* The agenda lookup of the latest POST met a database error other than
\* 'no rows'.
PostLookupFailed ==
    /\ lastPost # NullObj
    /\ lastPost.lookups = 1
    /\ lastPost.request.dbError \notin {NoError, "PGRST116"}

GetLookupFailed ==
    /\ lastGet # NullObj
    /\ lastGet.lookups = 1
    /\ lastGet.request.dbError \notin {NoError, "PGRST116"}

\* C15: when the agenda lookup made for GET or POST /api/suggestions meets a
\* database error other than 'no rows', the route answers 500, not 4xx.
C15_LookupErrorIs500 ==
    /\ PostLookupFailed => lastPost.status = 500
    /\ GetLookupFailed => lastGet.status = 500

\* The id is neither a UUID, nor all digits, nor manifesto-<digits>.
Malformed(id) ==
    /\ ~Falsy(id)
    /\ ~isValidUUID(id)
    /\ ~isRawInteger(id)
    /\ ~isManifestoFormat(id)

\* C16: an id that is neither a UUID, nor all digits, nor manifesto-<digits>
\* makes validateAndNormalizeAgendaId return isValid = false and
\* agendaUUID = null without a lookup, and GET and POST /api/suggestions
\* then answer 400 without querying or inserting suggestions.
C16_MalformedIdRejected ==
    /\ (lastGet # NullObj /\ Malformed(lastGet.request.agenda_id)) =>
          LET validation == validateAndNormalizeAgendaId(lastGet.request.agenda_id,
                                                         agendas, lastGet.request.dbError)
          IN  /\ ~validation.isValid
              /\ validation.agendaUUID = Null
              /\ validation.lookups = 0
              /\ lastGet.status = 400
              /\ lastGet.lookups = 0
              /\ lastGet.queries = 0
              /\ lastGet.suggestions = <<>>
    /\ (lastPost # NullObj /\ lastPost.stage = "validation"
          /\ Malformed(lastPost.request.agenda_id)) =>
          LET validation == validateAndNormalizeAgendaId(lastPost.request.agenda_id,
                                                         agendas, lastPost.request.dbError)
          IN  /\ ~validation.isValid
              /\ validation.agendaUUID = Null
              /\ validation.lookups = 0
              /\ lastPost.status = 400
              /\ lastPost.lookups = 0
              /\ lastPost.inserts = 0
    /\ (lastPost # NullObj /\ Malformed(lastPost.request.agenda_id)) =>
          /\ lastPost.stage \notin {"insert", "done"}
          /\ lastPost.inserts = 0
          /\ Len(suggestionsTable) = lastPost.rowsBefore

\* Both routes have refused a malformed id.
C16_Witness ==
    /\ lastGet # NullObj
    /\ Malformed(lastGet.request.agenda_id)
    /\ lastGet.status = 400
    /\ lastPost # NullObj
    /\ Malformed(lastPost.request.agenda_id)
    /\ lastPost.stage = "validation"
    /\ lastPost.status = 400

(***************************************************************************)
(* POST /api/suggestions: the email notification.                          *)
(***************************************************************************)
\* A step that queues an email is a POST that inserted a row and answers 200,
\* and the email quotes that row; a step in which an email callback runs
\* changes nothing but the queue and the log, whatever the outcome.
EmailStep ==
    /\ Len(emailTasks') > Len(emailTasks) =>
          /\ Len(emailTasks') = Len(emailTasks) + 1
          /\ Len(suggestionsTable') = Len(suggestionsTable) + 1
          /\ lastPost' # NullObj
          /\ lastPost'.status = 200
          /\ lastPost'.inserts = 1
          /\ emailTasks'[Len(emailTasks')].content
                = suggestionsTable'[Len(suggestionsTable')].content
          /\ emailLog' = emailLog
    /\ Len(emailTasks') < Len(emailTasks) =>
          /\ lastPost' = lastPost
          /\ suggestionsTable' = suggestionsTable
          /\ UNCHANGED <<now, rateLog, passed, systemSettings, otherPosts,
                         outsidePost>>
          /\ emailLog => emailLog'
    /\ emailLog' # emailLog => Len(emailTasks') < Len(emailTasks)

\* C17: in POST /api/suggestions the email is dispatched only after the row
\* was inserted, the response is the same whether the notification succeeds,
\* fails or never completes, and a failure is only logged.
C17_EmailAfterInsertOnly == [][EmailStep]_vars

\* A notification has failed and was logged, and the response of the POST
\* that queued it stands as sent.
C17_Witness ==
    /\ emailLog
    /\ lastPost # NullObj
    /\ lastPost.status = 200
    /\ Len(suggestionsTable) = lastPost.rowsBefore + 1

(***************************************************************************)
(* ManifestoList: what the filters let through.                            *)
(***************************************************************************)
\* The months of a timeline, 12 for one that is not known.
MonthsOf(timeline) ==
    CASE timeline \in {"180 days", "6 months"} -> 6
      [] timeline = "1 year" -> 12
      [] timeline = "18 months" -> 18
      [] timeline = "2 years" -> 24
      [] timeline = "3 years" -> 36
      [] timeline = "5 years" -> 60
      [] OTHER -> 12

\* The query is a substring of the text, letter case aside.
FoundIn(query, text) ==
    \E from \in 1..(Len(text) + 1), to \in 0..Len(text) :
        /\ to - from + 1 = Len(query)
        /\ ToLowerCase(SubSeq(text, from, to)) = ToLowerCase(query)

PassesAllFilters(item) ==
    /\ \/ filters.searchQuery = <<>>
       \/ FoundIn(filters.searchQuery, item.title)
       \/ FoundIn(filters.searchQuery, item.description)
       \/ FoundIn(filters.searchQuery, item.category)
    /\ \/ filters.selectedCategories = <<>>
       \/ \E k \in DOMAIN filters.selectedCategories :
             filters.selectedCategories[k] = item.category
    /\ \/ filters.selectedPriorities = <<>>
       \/ \E k \in DOMAIN filters.selectedPriorities :
             filters.selectedPriorities[k] = item.priority
    /\ MonthsOf(item.timeline) >= filters.timelineRange[1]
    /\ MonthsOf(item.timeline) <= filters.timelineRange[2]

Displayed(item) == \E j \in DOMAIN displayData : displayData[j] = item

SortedNow == SortedData(FilteredData(manifestoData, filters), votesDataRaw)

ShuffleInBounds(sorted) ==
    \A k \in DOMAIN shuffleSwaps :
        /\ shuffleSwaps[k][1] \in 0..(Len(sorted) - 1)
        /\ shuffleSwaps[k][2] \in 0..(Len(sorted) - 1)

ShufflePermutes(sorted) ==
    /\ Len(displayData) = Len(sorted)
    /\ \A k \in DOMAIN sorted :
          Cardinality({j \in DOMAIN displayData : displayData[j] = sorted[k]}) = 1
    /\ \A j \in DOMAIN displayData : displayData[j] # UndefinedItem

\* A step that keeps the seed and the list keeps the order.
SameSeedSameOrder ==
    (/\ randomSeed' = randomSeed
     /\ SortedData(FilteredData(manifestoData', filters'), votesDataRaw') = SortedNow)
        => displayData' = displayData

\* C20: for every seed and every filtered list the shuffle swaps only
\* positions inside the array and returns a permutation of the items, none
\* lost, duplicated or undefined, and the same seed with the same list gives
\* the same order.
C20_ShuffleIsPermutation ==
    /\ [](\E sorted \in {SortedNow} : ShuffleInBounds(sorted) /\ ShufflePermutes(sorted))
    /\ [][SameSeedSameOrder]_vars

\* The shuffle of three items has changed their order.
C20_Witness ==
    /\ Len(displayData) = 3
    /\ Len(shuffleSwaps) = 3
    /\ displayData # SortedNow
    /\ randomSeed # NullObj

(***************************************************************************)
(* POST /api/suggestions: the order of its checks.                         *)
(***************************************************************************)
\* The step is a POST that the model can tell from the step of no request.
IsPostStep ==
    /\ lastPost' # NullObj
    /\ lastPost' # lastPost \/ rateLog' # rateLog

\* The database was not accessed and the session was not read.
NoAuthNoDatabase ==
    /\ lastPost'.authCalls = 0
    /\ lastPost'.lookups = 0
    /\ lastPost'.inserts = 0
    /\ suggestionsTable' = suggestionsTable
    /\ emailTasks' = emailTasks

\* The body of the request passes the checks of lines 85-93.
BodyAccepted(request) ==
    /\ request.json
    /\ request.agenda_id \notin {Absent, Null, <<>>}
    /\ request.content \notin {Absent, Null}
    /\ \E k \in DOMAIN request.content : request.content[k] \notin {" ", "\t", "\n"}
    /\ request.author_name \notin {Absent, Null}
    /\ \E k \in DOMAIN request.author_name : request.author_name[k] \notin {" ", "\t", "\n"}

PostOrderStep ==
    IsPostStep =>
        LET request == lastPost'.request
            stage == lastPost'.stage
            quota == Len(Within(rateLog[request.ip], RateLimitWindowMs))
            allowed == request.origin \in AllowedOrigins
            limited == quota >= 5
            signedIn == request.auth = "user"
        IN  /\ ~allowed =>
                  /\ stage = "origin"
                  /\ lastPost'.status = 403
                  /\ rateLog' = rateLog
                  /\ NoAuthNoDatabase
            /\ (allowed /\ limited) =>
                  /\ stage = "rate"
                  /\ lastPost'.status = 429
                  /\ NoAuthNoDatabase
            /\ (allowed /\ ~limited) =>
                  /\ Len(rateLog'[request.ip]) = quota + 1
                  /\ lastPost'.authCalls = 1
            /\ (allowed /\ ~limited /\ ~signedIn) =>
                  /\ stage = "auth"
                  /\ lastPost'.status = 401
                  /\ lastPost'.lookups = 0
                  /\ lastPost'.inserts = 0
            /\ (allowed /\ ~limited /\ signedIn /\ ~BodyAccepted(request)) =>
                  /\ stage \in {"json", "agenda_id", "content", "author_name"}
                  /\ lastPost'.lookups = 0
                  /\ lastPost'.inserts = 0
            /\ (allowed /\ ~limited /\ signedIn /\ BodyAccepted(request)) =>
                  /\ stage \in {"validation", "insert", "done"}
                  /\ stage = "validation" => lastPost'.inserts = 0
            /\ lastPost'.status \in {400, 401} =>
                  Len(rateLog'[request.ip]) = quota + 1

\* C27: POST /api/suggestions checks the origin, the rate limit, the session,
\* the body, the agenda id, and then inserts: a disallowed origin gets 403
\* with no quota used and no session or database access, a rate-limited
\* request reads no session and no database, and a request refused with 401
\* or 400 has used one unit of its address's quota.
C27_ChecksInOrder == [][PostOrderStep]_vars

\* A request with blank content was refused with 400 and is the only one in
\* the limiter's log of its address.
C27_Witness ==
    /\ lastPost # NullObj
    /\ lastPost.stage = "content"
    /\ lastPost.status = 400
    /\ Len(rateLog[lastPost.request.ip]) = 1
    /\ suggestionsTable = <<>>

(***************************************************************************)
(* GET /api/testimonials: the rows it asks for.                            *)
(***************************************************************************)
\* The latest request is a GET that asked the database for a range.
AskedForRange ==
    /\ lastTestimonial # NullObj
    /\ lastTestimonial.op = "GET"
    /\ lastTestimonial.out.range # NullObj

\* The number of rows of the range asked for, in tenths.
RowsAskedFor == lastTestimonial.out.range[2] - lastTestimonial.out.range[1] + Tenths

\* The parameter is absent or holds no number.
NoNumber(param) == param \in {Null, <<>>, <<"a">>}

\* The number a parameter of the model's requests denotes, in tenths.
NumberOf(param) ==
    CASE param = <<"0">> -> 0
      [] param = <<"1">> -> 10
      [] param = <<"2">> -> 20
      [] param = <<"-", "1">> -> 0 - 10
      [] param = <<"2", "5", "0">> -> 2500
      [] param = <<"0", ".", "5">> -> 5
      [] OTHER -> 0

OnlyActiveReturned ==
    \A k \in DOMAIN lastTestimonial.out.data :
        \E i \in DOMAIN testimonials :
            /\ testimonials[i].is_active
            /\ testimonials[i].id = lastTestimonial.out.data[k].id

\* C28: every GET /api/testimonials asks the database for between 1 and 200
\* rows: an absent, non-numeric, zero or negative limit gives 50, a larger one
\* is capped at 200, an absent, non-numeric or negative offset gives 0, the
\* range is [offset, offset + limit - 1], and only active rows are returned.
C28_RowsBetween1And200 ==
    AskedForRange =>
        LET limit == lastTestimonial.request.limit
            offset == lastTestimonial.request.offset
        IN  /\ RowsAskedFor >= 1 * Tenths
            /\ RowsAskedFor <= 200 * Tenths
            /\ (NoNumber(limit) \/ NumberOf(limit) <= 0) => RowsAskedFor = 50 * Tenths
            /\ NumberOf(limit) > 200 * Tenths => RowsAskedFor = 200 * Tenths
            /\ (NoNumber(offset) \/ NumberOf(offset) < 0) =>
                  lastTestimonial.out.range[1] = 0
            /\ (~NoNumber(offset) /\ NumberOf(offset) >= 0) =>
                  lastTestimonial.out.range[1] = NumberOf(offset)
            /\ OnlyActiveReturned

\* What does hold: the claim for the limits that are whole numbers or no
\* numbers.
C28_WholeLimits ==
    (AskedForRange /\ lastTestimonial.request.limit # <<"0", ".", "5">>) =>
        C28_RowsBetween1And200

(***************************************************************************)
(* GET /api/testimonials: the requester's identity.                        *)
(***************************************************************************)
\* The status and the body of a reply.
ResponseOf(out) == <<out.status, out.error, out.data>>

\* C30: the response of GET /api/testimonials does not depend on who asks:
\* the same limit and offset against the same database state give the same
\* status and body under every session, and the service-role client reads no
\* cookies.
C30_SameForEverySession ==
    (lastTestimonial # NullObj /\ lastTestimonial.op = "GET") =>
        /\ ~lastTestimonial.out.cookies
        /\ \A sess \in Sessions :
              ResponseOf(GetTestimonials([lastTestimonial.request EXCEPT !.session = sess]))
                 = ResponseOf(lastTestimonial.out)

\* A signed-in visitor got the active rows from a configured deployment, which
\* a visitor without a session gets too.
C30_Witness ==
    /\ lastTestimonial # NullObj
    /\ lastTestimonial.op = "GET"
    /\ lastTestimonial.request.session.auth = "user"
    /\ lastTestimonial.out.client = "real"
    /\ lastTestimonial.out.status = 200
    /\ Len(lastTestimonial.out.data) >= 2

(***************************************************************************)
(* SuggestionList: overlapping votes, and the sign of the counts.          *)
(***************************************************************************)
\* Two requests for one suggestion were sent, both succeeded and both
\* responses have been processed.
BothVotesProcessed ==
    /\ Len(requests) = 2
    /\ requests[1].id = requests[2].id
    /\ \A rid \in 1..2 : requests[rid].stage = "done" /\ requests[rid].ok

\* C24: when two vote requests for one suggestion overlap and both succeed,
\* then after both responses were processed the item shows the vote and the
\* counts returned for the request sent last, whatever the order of arrival.
C24_LastSentWins ==
    BothVotesProcessed =>
        /\ VoteOf(userVotes, requests[2].id) = requests[2].data.userVote
        /\ LikesOf(voteCounts, requests[2].id) = requests[2].data.likes
        /\ DislikesOf(voteCounts, requests[2].id) = requests[2].data.dislikes

\* What does hold: the item shows what the response processed last returned.
C24_LastProcessedWins ==
    (BothVotesProcessed /\ lastEvent.kind = "ok") =>
        /\ VoteOf(userVotes, requests[2].id) = requests[lastEvent.rid].data.userVote
        /\ LikesOf(voteCounts, requests[2].id) = requests[lastEvent.rid].data.likes
        /\ DislikesOf(voteCounts, requests[2].id) = requests[lastEvent.rid].data.dislikes

\* C25: with a server that reports non-negative counts only, the like and
\* dislike counts SuggestionList displays are non-negative in every reachable
\* state, after any votes, rollbacks and responses.
C25_CountsNonNegative ==
    /\ \A id \in DOMAIN voteCounts :
          voteCounts[id].likes >= 0 /\ voteCounts[id].dislikes >= 0
    /\ \A k \in DOMAIN sortedSuggestions :
          sortedSuggestions[k].likes >= 0 /\ sortedSuggestions[k].dislikes >= 0

\* The item shows no like although the visitor had liked it when the counts
\* say 0, and the click that withdrew the like is awaiting its answer.
C25_Witness ==
    /\ Len(requests) >= 1
    /\ requests[1].currentVote = "like"
    /\ requests[1].currentCounts.likes = 0
    /\ requests[1].type = "like"
    /\ LikesOf(voteCounts, requests[1].id) = 0

(***************************************************************************)
(* lib/i18n.ts and the I18nProvider.                                       *)
(***************************************************************************)
\* The provider numbered p is mounted; it renders its children.
IsMounted(p) == p \in DOMAIN providers /\ providers[p].mounted
RendersChildren(p) == IsMounted(p) /\ providers[p].isReady

\* The load has ended without the translations.
LoadFailed == loadingPromise = "fulfilled" /\ ~translationsLoaded

\* C21: in every state in which an I18nProvider renders its children,
\* isTranslationsLoaded() is true.
C21_ChildrenOnlyWhenLoaded ==
    \A p \in 1..MaxProviders : RendersChildren(p) => isTranslationsLoaded

\* What does hold: children are rendered only once the load has ended, with
\* or without the translations.
C21_ChildrenOnlyWhenSettled ==
    \A p \in 1..MaxProviders :
        RendersChildren(p) => (isTranslationsLoaded \/ loadingPromise = "fulfilled")

\* C22: a mounted I18nProvider eventually renders its children, whether the
\* fetches succeed or fail, unless it is unmounted first; and once it is
\* unmounted its ready state is never set.
C22_RendersAndNeverSetsAfterUnmount ==
    /\ \A p \in 1..MaxProviders :
          [](IsMounted(p) => <>(RendersChildren(p) \/ ~IsMounted(p)))
    /\ [][\A p \in DOMAIN providers :
             ~providers[p].mounted => providers'[p].isReady = providers[p].isReady]_vars

\* A fetch has failed and a mounted provider renders its children, while
\* another provider, unmounted before its callback ran, was left not ready.
C22_Witness ==
    /\ \E lng \in Languages : localeFetch[lng] = "failed"
    /\ \E p \in DOMAIN providers : RendersChildren(p)
    /\ \E c \in DOMAIN calls :
          /\ calls[c].by = "provider"
          /\ calls[c].stage = "returned"
          /\ ~providers[calls[c].provider].mounted
          /\ ~providers[calls[c].provider].isReady

\* C23: over all calls of loadTranslations the pair of fetches is issued at
\* most once: a call made while a load is under way or has ended gets that
\* load's promise, a call made after success returns at once,
\* translationsLoaded never goes back to false, and a failed load is not
\* retried, translationsLoaded staying false.
C23_FetchedAtMostOnce ==
    /\ [](/\ fetchPairs <= 1
          /\ Cardinality({c \in DOMAIN calls : calls[c].got = "started"}) = fetchPairs
          /\ \A c \in DOMAIN calls :
                /\ calls[c].sawLoaded => calls[c].got = "loaded"
                /\ (~calls[c].sawLoaded /\ calls[c].sawPromise # "null")
                       => calls[c].got = "shared")
    /\ [][translationsLoaded => translationsLoaded']_vars
    /\ [][LoadFailed => (LoadFailed' /\ fetchPairs' = fetchPairs)]_vars

\* One call started the load, one was made while it was under way and one
\* after it had failed; the pair of fetches was issued once.
C23_Witness ==
    /\ fetchPairs = 1
    /\ LoadFailed
    /\ \E c \in DOMAIN calls : calls[c].got = "started"
    /\ \E c \in DOMAIN calls : calls[c].sawPromise = "pending" /\ calls[c].stage = "returned"
    /\ \E c \in DOMAIN calls : calls[c].sawPromise = "fulfilled" /\ calls[c].stage = "returned"

(***************************************************************************)
(* The offline queue.                                                      *)
(***************************************************************************)
InQueue(n) == \E k \in DOMAIN offlineActions : offlineActions[k].data = n

\* C26: a suggestion saved while offline stays in the offline queue until
\* useOfflineSync has inserted it on the server: also when its insert
\* failed, and when it was saved while a sync was under way.
C26_QueuedUntilInserted ==
    \A n \in savedOffline : InQueue(n) \/ n \in inserted

\* What does hold: no saved suggestion leaves the queue but at the end of a
\* sync.
C26_RemovedOnlyBySync ==
    [][\A n \in savedOffline :
          (InQueue(n) /\ ~InQueue(n)') => (syncRun # NullObj /\ syncRun' = NullObj)]_vars

(***************************************************************************)
(* The TestimonialCarousel.                                                *)
(***************************************************************************)
\* At most one loop is scheduled, and the scroll position stays below half
\* of the scroll height.
OneLoopAndWrapped ==
    /\ Cardinality(frames) <= 1
    /\ carouselCount > 0 => 2 * scrollTop < scrollHeight

\* The step moves the scroll position.
Scrolls == scrollTop' # scrollTop

\* C29 as stated: the scroll position changes only while the carousel is not
\* paused, not hovered and has testimonials, so that no frame moves it after
\* pause or mouse-enter until play or mouse-leave; at most one animation
\* frame loop is scheduled at any time; the position wraps to 0 on reaching
\* half of the scroll height.
C29_ScrollsOnlyWhenNotPausedNotHovered ==
    /\ []OneLoopAndWrapped
    /\ [][Scrolls => /\ ~isPaused /\ ~isHovered /\ carouselCount > 0
                     /\ scrollTop' = scroll(scrollTop, scrollHeight)]_vars

\* C29 amended: the scroll position changes only while the carousel is not
\* paused, has testimonials and the scroll effect last ran with the
\* carousel not hovered: no frame moves it after pause, and none after
\* mouse-enter once the effect has run again; until then the loop is still
\* scheduled. At most one loop is scheduled at any time and the position
\* wraps to 0 on reaching half of the scroll height.
C29_ScrollsOnlyWhileEffectInForce ==
    /\ [](/\ OneLoopAndWrapped
          /\ frames # {} => (/\ effect.cleanup /\ ~effect.isPaused /\ ~effect.isHovered
                             /\ effect.count > 0 /\ frames = {animationRef})
          /\ (isPaused \/ effect.isHovered \/ carouselCount = 0) => frames = {})
    /\ [][Scrolls => /\ ~isPaused /\ ~effect.isHovered /\ carouselCount > 0
                     /\ scrollTop' = scroll(scrollTop, scrollHeight)]_vars

\* Frames have moved the position, the mouse has entered and the effect has
\* run again: the loop is cancelled.
C29_Witness ==
    /\ isHovered /\ effect.isHovered /\ ~isPaused
    /\ frames = {}
    /\ animationRef >= 3
    /\ scrollTop = 2

=============================================================================
